---- MODULE Spec2Model ----
(***************************************************************************)
(* A model of edres_core: the generic Value tree (value.rs), value         *)
(* unification and sequence classification (parsing/mod.rs) and the code   *)
(* generator (codegen.rs).                                                 *)
(*                                                                         *)
(* Strings are sequences of one-character strings, so that format!         *)
(* concatenation is modelled by \o and two different paths that format to  *)
(* the same text really are the same name.                                 *)
(* An Option<T> of the program is a sequence of length 0 (None) or 1       *)
(* (Some).                                                                 *)
(***************************************************************************)
EXTENDS Integers, Sequences, FiniteSets, TLC

\* Largest number of nodes of an input Value tree.
MaxNodes == 4

\* Largest number of elements of a Tuple, Array or Vec of the input.
MaxLen == 2

\* Largest max_array_size the parse options are drawn from.
MaxArr == 2

\* Largest number of nodes of a YAML document.
MaxYamlNodes == 3

None == <<>>
Some(x) == <<x>>

(* run counts the process runs.  It stands for what a run could read      *)
(* besides its arguments: the seed of its hasher, its clock.               *)
VARIABLE run

-----------------------------------------------------------------------------
(* value.rs: enum Value.  Every Value is a record with the same four       *)
(* fields: kind (the variant), n (scalar payload, or the declared length   *)
(* of an Array), keys (the IndexMap keys of a Struct, in insertion order)  *)
(* and items (the payload values, in order).                               *)

ScalarKinds ==
    {"Unit", "Bool", "Char", "I8", "I16", "I32", "I64", "I128", "ISize",
     "U8", "U16", "U32", "U64", "U128", "USize", "F32", "F64", "String"}

Kinds == ScalarKinds \cup {"Option", "Tuple", "Array", "Vec", "Struct"}

Scalar(k, x) == [kind |-> k, n |-> x, keys |-> <<>>, items |-> <<>>]
Unit == Scalar("Unit", 0)
OptionNone == [kind |-> "Option", n |-> 0, keys |-> <<>>, items |-> <<>>]
OptionSome(v) == [kind |-> "Option", n |-> 0, keys |-> <<>>, items |-> <<v>>]
Tuple(vs) == [kind |-> "Tuple", n |-> 0, keys |-> <<>>, items |-> vs]
Array(len, vs) == [kind |-> "Array", n |-> len, keys |-> <<>>, items |-> vs]
Vec(vs) == [kind |-> "Vec", n |-> 0, keys |-> <<>>, items |-> vs]
Struct(ks, vs) == [kind |-> "Struct", n |-> 0, keys |-> ks, items |-> vs]

-----------------------------------------------------------------------------
(* The input universe: all Value trees of at most MaxNodes nodes over a    *)
(* small alphabet of scalars and keys.  Array lengths equal the element    *)
(* count and Struct keys are pairwise distinct, as the parsers and         *)
(* IndexMap guarantee.                                                     *)

KeyA == <<"a">>
KeyB == <<"b">>
KeyAB == <<"a", "_", "_", "b">>

\* The key lists the records of the universe are built with (insertion
\* order; the second and third are not in sorted order resp. hold a key that
\* itself contains the separator).
KeySeqs == {<<>>, <<KeyA>>, <<KeyB>>, <<KeyB, KeyA>>, <<KeyA, KeyAB>>}

RootName == <<"R">>

\* a requested type name that is not an identifier
BadName == <<"0", "R">>

\* a key that is not an identifier, and the record that holds it
BadKey == <<"0">>
BadKeyValues ==
    {Struct(<<BadKey>>, <<Unit>>),
     Struct(<<KeyA>>, <<Struct(<<BadKey>>, <<Unit>>)>>),
     Struct(<<KeyA>>, <<Tuple(<<Struct(<<BadKey>>, <<Unit>>)>>)>>)}

Range(s) == {s[i] : i \in 1..Len(s)}

LeafValues == {Unit, Scalar("I64", 1), OptionNone}

RECURSIVE ValuesOfSize(_)
RECURSIVE SeqsOfTotal(_, _)

\* sequences of at most len values whose node counts add up to m
SeqsOfTotal(m, len) ==
    IF m = 0 THEN {<<>>}
    ELSE IF len = 0 THEN {}
    ELSE UNION {{<<v>> \o rest : v \in ValuesOfSize(k),
                                  rest \in SeqsOfTotal(m - k, len - 1)}
                : k \in 1..m}

ValuesOfSize(n) ==
    LET kids == SeqsOfTotal(n - 1, MaxLen)
        some == {t \in kids : Len(t) > 0}
    IN  (IF n = 1 THEN LeafValues ELSE {})
        \cup {OptionSome(s[1]) : s \in {t \in kids : Len(t) = 1}}
        \cup {Tuple(s) : s \in some}
        \cup {Array(Len(s), s) : s \in some}
        \cup {Vec(s) : s \in some}
        \cup UNION {{Struct(ks, s) : ks \in {q \in KeySeqs : Len(q) = Len(s)}}
                    : s \in kids}

Universe == UNION {ValuesOfSize(n) : n \in 1..MaxNodes}

\* Whole values of every scalar kind, for the operations that only look at
\* the top-level kind.
ScalarValues == {Scalar(k, 1) : k \in ScalarKinds}

\* the sequences and the record without elements
EmptyValues == {Tuple(<<>>), Array(0, <<>>), Vec(<<>>)}

Inputs == Universe \cup ScalarValues \cup EmptyValues \cup BadKeyValues

-----------------------------------------------------------------------------
(* Text.                                                                   *)

Digits == <<"0", "1", "2", "3", "4", "5", "6", "7", "8", "9">>

\* Display of a usize, as format!("__{}", i) prints it
RECURSIVE FormatUsize(_)
FormatUsize(i) ==
    IF i < 10 THEN <<Digits[i + 1]>>
    ELSE FormatUsize(i \div 10) \o <<Digits[(i % 10) + 1]>>

\* the literal text "__" of the two format strings
Sep == <<"_", "_">>

\* format!("{}{}{}", struct_name, key, index) with key and index "" when
\* absent and "__<key>", "__<index>" otherwise
struct_name_at(struct_name, under_key, under_index) ==
    LET key == IF under_key = None THEN <<>> ELSE Sep \o under_key[1]
        index == IF under_index = None THEN <<>>
                 ELSE Sep \o FormatUsize(under_index[1])
    IN  struct_name \o key \o index

\* the characters an identifier may start with, and those it may continue
\* with
IdentStart ==
    {"A", "B", "C", "D", "E", "F", "G", "H", "I", "J", "K", "L", "M",
     "N", "O", "P", "Q", "R", "S", "T", "U", "V", "W", "X", "Y", "Z",
     "_",
     "a", "b", "c", "d", "e", "f", "g", "h", "i", "j", "k", "l", "m",
     "n", "o", "p", "q", "r", "s", "t", "u", "v", "w", "x", "y", "z"}

IdentContinue == IdentStart \cup {Digits[i] : i \in 1..Len(Digits)}

\* format_ident!("{}", s) returns an identifier when s is one and panics
\* otherwise; is_ident(s) is TRUE when it returns
is_ident(s) ==
    /\ Len(s) > 0
    /\ s[1] \in IdentStart
    /\ \A i \in 2..Len(s) : s[i] \in IdentContinue

-----------------------------------------------------------------------------
(* Generated types, literals and declarations (the token streams of        *)
(* codegen.rs, kept as trees).                                             *)

Ty(t, n, name, args) == [t |-> t, n |-> n, name |-> name, args |-> args]
TPrim(t) == Ty(t, 0, <<>>, <<>>)
TOption(x) == Ty("Option", 0, <<>>, <<x>>)
TArray(x, len) == Ty("Array", len, <<>>, <<x>>)
TCowSlice(x) == Ty("CowSlice", 0, <<>>, <<x>>)
TTuple(xs) == Ty("Tuple", 0, <<>>, xs)
TNamed(name) == Ty("Named", 0, name, <<>>)

\* the primitive type each scalar kind is declared as
PrimTypeName(kind) ==
    CASE kind = "Unit" -> "()"
      [] kind = "Bool" -> "bool"
      [] kind = "Char" -> "char"
      [] kind = "I8" -> "i8"
      [] kind = "I16" -> "i16"
      [] kind = "I32" -> "i32"
      [] kind = "I64" -> "i64"
      [] kind = "I128" -> "i128"
      [] kind = "ISize" -> "isize"
      [] kind = "U8" -> "u8"
      [] kind = "U16" -> "u16"
      [] kind = "U32" -> "u32"
      [] kind = "U64" -> "u64"
      [] kind = "U128" -> "u128"
      [] kind = "USize" -> "usize"
      [] kind = "F32" -> "f32"
      [] kind = "F64" -> "f64"
      [] kind = "String" -> "Cow<str>"

Lit(l, n, name, keys, args) ==
    [l |-> l, n |-> n, name |-> name, keys |-> keys, args |-> args]

-----------------------------------------------------------------------------
(* codegen.rs: type_of_value.  Returns the type and the new_structs vector *)
(* after the call; an entry of new_structs is the pair (name, record).     *)

RECURSIVE type_of_value(_, _, _, _, _)
RECURSIVE types_in_tuple(_, _, _, _, _, _)

\* values.iter().enumerate().map(|(i, v)| type_of_value(v, .., Some(i), ..))
types_in_tuple(values, i, struct_name, under_key, new_structs, acc) ==
    IF i > Len(values) THEN [tys |-> acc, ns |-> new_structs]
    ELSE LET r == type_of_value(values[i], struct_name, under_key,
                                Some(i - 1), new_structs)
         IN  types_in_tuple(values, i + 1, struct_name, under_key, r.ns,
                            Append(acc, r.ty))

\* type_of_value that also visits the second element of a Vec
type_of_value_two_elements(value, struct_name, under_key, under_index, new_structs) ==
    CASE value.kind \in ScalarKinds ->
            [ty |-> TPrim(PrimTypeName(value.kind)), ns |-> new_structs]
      [] value.kind = "Option" ->
            IF Len(value.items) = 0
            THEN [ty |-> TOption(TPrim("()")), ns |-> new_structs]
            ELSE LET r == type_of_value(value.items[1], struct_name,
                                        under_key, None, new_structs)
                 IN  [ty |-> TOption(r.ty), ns |-> r.ns]
      [] value.kind = "Array" ->
            IF Len(value.items) = 0
            THEN [ty |-> TArray(TPrim("()"), value.n), ns |-> new_structs]
            ELSE LET r == type_of_value(value.items[1], struct_name,
                                        under_key, None, new_structs)
                 IN  [ty |-> TArray(r.ty, value.n), ns |-> r.ns]
      [] value.kind = "Vec" ->
            IF Len(value.items) = 0
            THEN [ty |-> TCowSlice(TPrim("()")), ns |-> new_structs]
            ELSE LET r == type_of_value(value.items[1], struct_name,
                                        under_key, None, new_structs)
                     q == IF Len(value.items) > 1
                          THEN type_of_value(value.items[2], struct_name,
                                             under_key, None, r.ns)
                          ELSE r
                 IN  [ty |-> TCowSlice(r.ty), ns |-> q.ns]
      [] value.kind = "Tuple" ->
            LET r == types_in_tuple(value.items, 1, struct_name, under_key,
                                    new_structs, <<>>)
            IN  [ty |-> TTuple(r.tys), ns |-> r.ns]
      [] value.kind = "Struct" ->
            LET name == struct_name_at(struct_name, under_key, under_index)
            IN  [ty |-> TNamed(name),
                 ns |-> Append(new_structs, [name |-> name, data |-> value])]

type_of_value(value, struct_name, under_key, under_index, new_structs) ==
    CASE value.kind \in ScalarKinds ->
            [ty |-> TPrim(PrimTypeName(value.kind)), ns |-> new_structs]
      [] value.kind = "Option" ->
            IF Len(value.items) = 0
            THEN [ty |-> TOption(TPrim("()")), ns |-> new_structs]
            ELSE LET r == type_of_value(value.items[1], struct_name,
                                        under_key, None, new_structs)
                 IN  [ty |-> TOption(r.ty), ns |-> r.ns]
      [] value.kind = "Array" ->
            IF Len(value.items) # value.n
            THEN [ty |-> TPrim("panic"), ns |-> new_structs]
            ELSE IF Len(value.items) = 0
            THEN [ty |-> TArray(TPrim("()"), value.n), ns |-> new_structs]
            ELSE LET r == type_of_value(value.items[1], struct_name,
                                        under_key, None, new_structs)
                 IN  [ty |-> TArray(r.ty, value.n), ns |-> r.ns]
      [] value.kind = "Vec" ->
            IF Len(value.items) = 0
            THEN [ty |-> TCowSlice(TPrim("()")), ns |-> new_structs]
            ELSE LET r == type_of_value(value.items[1], struct_name,
                                        under_key, None, new_structs)
                 IN  [ty |-> TCowSlice(r.ty), ns |-> r.ns]
      [] value.kind = "Tuple" ->
            LET r == types_in_tuple(value.items, 1, struct_name, under_key,
                                    new_structs, <<>>)
            IN  [ty |-> TTuple(r.tys), ns |-> r.ns]
      [] value.kind = "Struct" ->
            LET name == struct_name_at(struct_name, under_key, under_index)
            IN  [ty |-> TNamed(name),
                 ns |-> Append(new_structs, [name |-> name, data |-> value])]

-----------------------------------------------------------------------------
(* codegen.rs: define_value and define_struct_value.                       *)

RECURSIVE define_value(_, _, _, _)
RECURSIVE define_struct_value(_, _)

define_value(value, struct_name, under_key, under_index) ==
    CASE value.kind \in ScalarKinds ->
            Lit(value.kind, value.n, <<>>, <<>>, <<>>)
      [] value.kind = "Option" ->
            IF Len(value.items) = 0 THEN Lit("None", 0, <<>>, <<>>, <<>>)
            ELSE Lit("Some", 0, <<>>, <<>>,
                     <<define_value(value.items[1], struct_name, under_key,
                                    under_index)>>)
      [] value.kind = "Array" ->
            Lit("Array", 0, <<>>, <<>>,
                [i \in 1..Len(value.items) |->
                    define_value(value.items[i], struct_name, under_key,
                                 under_index)])
      [] value.kind = "Vec" ->
            Lit("CowSlice", 0, <<>>, <<>>,
                [i \in 1..Len(value.items) |->
                    define_value(value.items[i], struct_name, under_key,
                                 under_index)])
      [] value.kind = "Tuple" ->
            Lit("Tuple", 0, <<>>, <<>>,
                [i \in 1..Len(value.items) |->
                    define_value(value.items[i], struct_name, under_key,
                                 Some(i - 1))])
      [] value.kind = "Struct" ->
            define_struct_value(value,
                struct_name_at(struct_name, under_key, under_index))

define_struct_value(data, struct_name) ==
    Lit("Struct", 0, struct_name, data.keys,
        [i \in 1..Len(data.items) |->
            define_value(data.items[i], struct_name, Some(data.keys[i]), None)])

-----------------------------------------------------------------------------
(* options.rs: SerdeSupport, and codegen.rs: derive_attribute.  A trait    *)
(* name is the sequence of its path segments: "Debug" is <<"Debug">> and   *)
(* "serde::Serialize" is <<"serde", "Serialize">>.                         *)

SerdeNo == [kind |-> "No", serialize |-> FALSE, deserialize |-> FALSE]
SerdeYes == [kind |-> "Yes", serialize |-> FALSE, deserialize |-> FALSE]
SerdeMixed(ser, de) == [kind |-> "Mixed", serialize |-> ser, deserialize |-> de]

should_derive_ser_de(self) ==
    CASE self.kind = "No" -> None
      [] self.kind = "Yes" -> Some(<<TRUE, TRUE>>)
      [] self.kind = "Mixed" ->
            IF ~(self.serialize \/ self.deserialize) THEN None
            ELSE Some(<<self.serialize, self.deserialize>>)

\* s.split_once("::"): the crate name and the trait name, or the name alone
format_derive(s) == IF Len(s) >= 2 THEN <<s[1], s[2]>> ELSE <<s[1]>>

\* derive_attribute that leaves the serde traits out
derive_attribute_without_serde(trait_list, serde_support, require_debug) ==
    LET derives == [i \in 1..Len(trait_list) |-> format_derive(trait_list[i])]
    IN  IF Len(derives) = 0 THEN None ELSE Some(derives)

\* derive_attribute that adds Debug whenever it is required
derive_attribute_debug_always(trait_list, serde_support, require_debug) ==
    LET listed == [i \in 1..Len(trait_list) |-> format_derive(trait_list[i])]
        ser_de == IF should_derive_ser_de(serde_support) = None
                  THEN <<FALSE, FALSE>>
                  ELSE should_derive_ser_de(serde_support)[1]
        derives ==
            listed
            \o (IF ser_de[1] THEN <<format_derive(<<"serde", "Serialize">>)>>
                ELSE <<>>)
            \o (IF ser_de[2] THEN <<format_derive(<<"serde", "Deserialize">>)>>
                ELSE <<>>)
            \o (IF require_debug THEN <<format_derive(<<"Debug">>)>> ELSE <<>>)
    IN  IF Len(derives) = 0 THEN None ELSE Some(derives)

\* the list inside #[derive(..)], or None when there is no attribute
derive_attribute(trait_list, serde_support, require_debug) ==
    LET listed == [i \in 1..Len(trait_list) |-> format_derive(trait_list[i])]
        deriving_debug == \E i \in 1..Len(trait_list) : trait_list[i] = <<"Debug">>
        ser_de == IF should_derive_ser_de(serde_support) = None
                  THEN <<FALSE, FALSE>>
                  ELSE should_derive_ser_de(serde_support)[1]
        derives ==
            listed
            \o (IF ser_de[1] THEN <<format_derive(<<"serde", "Serialize">>)>>
                ELSE <<>>)
            \o (IF ser_de[2] THEN <<format_derive(<<"serde", "Deserialize">>)>>
                ELSE <<>>)
            \o (IF ~deriving_debug /\ require_debug
                THEN <<format_derive(<<"Debug">>)>> ELSE <<>>)
    IN  IF Len(derives) = 0 THEN None ELSE Some(derives)

-----------------------------------------------------------------------------
(* codegen.rs: define_structs_inner.  The result is the sequence of struct *)
(* declarations in the order they are emitted; a declaration is its name,  *)
(* its derive attribute and its fields (key, type) in order.               *)

RECURSIVE define_structs_inner(_, _, _, _)
RECURSIVE struct_fields(_, _, _, _, _)
RECURSIVE FlattenSeq(_)

FlattenSeq(ss) == IF Len(ss) = 0 THEN <<>> ELSE Head(ss) \o FlattenSeq(Tail(ss))

\* the loop over data.0.iter() that fills fields and sub_structs
struct_fields(data, i, struct_name, fields, sub_structs) ==
    IF i > Len(data.keys) THEN [fields |-> fields, ns |-> sub_structs]
    ELSE LET r == type_of_value(data.items[i], struct_name,
                                Some(data.keys[i]), None, sub_structs)
         IN  struct_fields(data, i + 1, struct_name,
                           Append(fields, [key |-> data.keys[i], ty |-> r.ty]),
                           r.ns)

\* define_structs_inner over a map that iterates in an order that changes
\* from run to run
define_structs_inner_hashed(data, struct_name, options, derives) ==
    LET hashed == IF run % 2 = 1
                  THEN [data EXCEPT
                           !.keys = [i \in 1..Len(data.keys) |->
                                        data.keys[Len(data.keys) + 1 - i]],
                           !.items = [i \in 1..Len(data.items) |->
                                         data.items[Len(data.items) + 1 - i]]]
                  ELSE data
        r == struct_fields(hashed, 1, struct_name, <<>>, <<>>)
        sub_structs == [i \in 1..Len(r.ns) |->
                           define_structs_inner(r.ns[i].data, r.ns[i].name,
                                                options, derives)]
    IN  <<[name |-> struct_name, derives |-> derives, fields |-> r.fields]>>
        \o FlattenSeq(sub_structs)

\* define_structs_inner emitting the nested declarations level by level
define_structs_inner_by_level(data, struct_name, options, derives) ==
    LET r == struct_fields(data, 1, struct_name, <<>>, <<>>)
        sub_structs == [i \in 1..Len(r.ns) |->
                           define_structs_inner(r.ns[i].data, r.ns[i].name,
                                                options, derives)]
    IN  <<[name |-> struct_name, derives |-> derives, fields |-> r.fields]>>
        \o FlattenSeq([i \in 1..Len(sub_structs) |-> <<Head(sub_structs[i])>>])
        \o FlattenSeq([i \in 1..Len(sub_structs) |-> Tail(sub_structs[i])])

define_structs_inner(data, struct_name, options, derives) ==
    LET r == struct_fields(data, 1, struct_name, <<>>, <<>>)
        sub_structs == [i \in 1..Len(r.ns) |->
                           define_structs_inner(r.ns[i].data, r.ns[i].name,
                                                options, derives)]
    IN  <<[name |-> struct_name, derives |-> derives, fields |-> r.fields]>>
        \o FlattenSeq(sub_structs)

\* the names of the struct types a type refers to
RECURSIVE type_idents(_)
type_idents(ty) ==
    (IF ty.t = "Named" THEN {ty.name} ELSE {})
    \cup UNION {type_idents(ty.args[i]) : i \in 1..Len(ty.args)}

\* the strings the declarations were given to format_ident! for: struct
\* names, field names and the struct names inside the field types
decl_idents(decls) ==
    UNION {{decls[i].name}
           \cup {decls[i].fields[j].key : j \in 1..Len(decls[i].fields)}
           \cup UNION {type_idents(decls[i].fields[j].ty)
                       : j \in 1..Len(decls[i].fields)}
           : i \in 1..Len(decls)}

\* the strings a literal was given to format_ident! for: the names and the
\* field names of its struct literals
RECURSIVE value_idents(_)
value_idents(lit) ==
    (IF lit.l = "Struct" THEN {lit.name} \cup Range(lit.keys) ELSE {})
    \cup UNION {value_idents(lit.args[i]) : i \in 1..Len(lit.args)}

\* some format_ident! of the call panics
ident_panic(idents) == \E s \in idents : ~is_ident(s)

-----------------------------------------------------------------------------
(* parsing/mod.rs: unify_value, unify_values, array_or_vec.                *)

\* Value::wrap_in_option: wraps a value that is not an Option in
\* Option(Some(..)) and leaves an Option alone
wrap_in_option(v) == IF v.kind = "Option" THEN v ELSE OptionSome(v)

RECURSIVE unify_value(_)
RECURSIVE unify_values(_)

\* unify_values deciding on the first element only instead of any element
unify_values_first_only(values) ==
    LET inner == [i \in 1..Len(values) |-> unify_value(values[i])]
    IN  IF Len(inner) > 0 /\ inner[1].kind = "Option"
        THEN [i \in 1..Len(inner) |-> wrap_in_option(inner[i])]
        ELSE inner

\* unify_values wrapping every element, the Options too
unify_values_wrapping_all(values) ==
    LET inner == [i \in 1..Len(values) |-> unify_value(values[i])]
    IN  IF \E i \in 1..Len(inner) : inner[i].kind = "Option"
        THEN [i \in 1..Len(inner) |-> OptionSome(inner[i])]
        ELSE inner

\* unify_value that does not look into the fields of a Struct
unify_value_skipping_structs(value) ==
    CASE value.kind = "Option" /\ Len(value.items) = 1 ->
            [value EXCEPT !.items = <<unify_value(value.items[1])>>]
      [] value.kind = "Tuple" ->
            [value EXCEPT !.items =
                [i \in 1..Len(value.items) |-> unify_value(value.items[i])]]
      [] value.kind \in {"Array", "Vec"} ->
            [value EXCEPT !.items = unify_values(value.items)]
      [] OTHER -> value

\* unify_value that unifies the slots of a Tuple with each other
unify_value_slots_together(value) ==
    CASE value.kind = "Option" /\ Len(value.items) = 1 ->
            [value EXCEPT !.items = <<unify_value(value.items[1])>>]
      [] value.kind \in {"Tuple", "Array", "Vec"} ->
            [value EXCEPT !.items = unify_values(value.items)]
      [] value.kind = "Struct" ->
            [value EXCEPT !.items =
                [i \in 1..Len(value.items) |-> unify_value(value.items[i])]]
      [] OTHER -> value

unify_value(value) ==
    CASE value.kind = "Option" /\ Len(value.items) = 1 ->
            [value EXCEPT !.items = <<unify_value(value.items[1])>>]
      [] value.kind = "Tuple" ->
            [value EXCEPT !.items =
                [i \in 1..Len(value.items) |-> unify_value(value.items[i])]]
      [] value.kind = "Array" ->
            [value EXCEPT !.items = unify_values(value.items)]
      [] value.kind = "Vec" ->
            [value EXCEPT !.items = unify_values(value.items)]
      [] value.kind = "Struct" ->
            [value EXCEPT !.items =
                [i \in 1..Len(value.items) |-> unify_value(value.items[i])]]
      [] OTHER -> value

unify_values(values) ==
    LET inner == [i \in 1..Len(values) |-> unify_value(values[i])]
    IN  IF \E i \in 1..Len(inner) : inner[i].kind = "Option"
        THEN [i \in 1..Len(inner) |-> wrap_in_option(inner[i])]
        ELSE inner

\* array_or_vec with < in place of <=
array_or_vec_below(seq, max_array_size) ==
    IF max_array_size # None /\ Len(seq) < max_array_size[1]
    THEN Array(Len(seq), seq)
    ELSE Vec(seq)

\* array_or_vec that declares the Array with max_array_size elements
array_or_vec_capacity(seq, max_array_size) ==
    IF max_array_size # None /\ Len(seq) <= max_array_size[1]
    THEN Array(max_array_size[1], seq)
    ELSE Vec(seq)

\* max_array_size is an Option<usize>
array_or_vec(seq, max_array_size) ==
    IF max_array_size # None /\ Len(seq) <= max_array_size[1]
    THEN Array(Len(seq), seq)
    ELSE Vec(seq)

\* the parsers' parse_value: the decoded tree, then unify_value
parse_value(raw_value) == unify_value(raw_value)

-----------------------------------------------------------------------------
(* Results.  A call ends with Ok(out), with Err(err) or by a panic.        *)

Ok(out) == [status |-> "Ok", err |-> <<>>, out |-> out]
Err(kind, detail) == [status |-> "Err", err |-> <<kind, detail>>, out |-> <<>>]
Panic == [status |-> "Panic", err |-> <<>>, out |-> <<>>]

-----------------------------------------------------------------------------
(* value.rs: Value::assume_struct.                                         *)

assume_struct_tag(x) ==
    CASE x.kind = "Unit" -> "()"
      [] x.kind = "Bool" -> "bool"
      [] x.kind = "Char" -> "char"
      [] x.kind = "I8" -> "i8"
      [] x.kind = "I16" -> "i16"
      [] x.kind = "I32" -> "i32"
      [] x.kind = "I64" -> "i64"
      [] x.kind = "I128" -> "i128"
      [] x.kind = "ISize" -> "isize"
      [] x.kind = "U8" -> "u8"
      [] x.kind = "U16" -> "u16"
      [] x.kind = "U32" -> "u32"
      [] x.kind = "U64" -> "u64"
      [] x.kind = "U128" -> "u128"
      [] x.kind = "USize" -> "usize"
      [] x.kind = "F32" -> "f32"
      [] x.kind = "F64" -> "f64"
      [] x.kind = "String" -> "String"
      [] x.kind = "Option" -> "Option"
      [] x.kind = "Tuple" -> "tuple"
      [] x.kind = "Array" -> "array"
      [] x.kind = "Vec" -> "Vec"

\* assume_struct with one tag for the three sequence kinds
assume_struct_one_seq_tag(self) ==
    IF self.kind = "Struct" THEN Ok(self)
    ELSE Err("ExpectedStruct",
             IF self.kind \in {"Tuple", "Array", "Vec"} THEN "Vec"
             ELSE assume_struct_tag(self))

assume_struct(self) ==
    IF self.kind = "Struct" THEN Ok(self)
    ELSE Err("ExpectedStruct", assume_struct_tag(self))

-----------------------------------------------------------------------------
(* Options (options.rs): each Option<name> is None or Some(name).          *)

MinimalOptions ==
    [source_path_const_name |-> None,
     struct_data_const_name |-> None,
     derived_traits |-> <<>>,
     serde_support |-> SerdeNo,
     all_variants_const_name |-> None,
     all_values_const_name |-> None,
     values_struct_name |-> None,
     get_value_fn_name |-> None,
     enum_derived_traits |-> <<>>,
     values_derived_traits |-> <<>>,
     impl_default |-> FALSE,
     impl_display |-> FALSE,
     impl_from_str |-> FALSE,
     file_paths_const_name |-> None,
     get_path_fn_name |-> None,
     file_bytes_const_name |-> None,
     get_bytes_fn_name |-> None,
     file_strings_const_name |-> None,
     get_string_fn_name |-> None]

DefaultOptions ==
    [source_path_const_name |-> Some(<<"S", "O", "U", "R", "C", "E", "_", "P", "A", "T", "H">>),
     struct_data_const_name |-> Some(<<"D", "A", "T", "A">>),
     derived_traits |-> <<<<"Debug">>>>,
     serde_support |-> SerdeNo,
     all_variants_const_name |-> Some(<<"A", "L", "L">>),
     all_values_const_name |-> Some(<<"V", "A", "L", "U", "E", "S">>),
     values_struct_name |-> None,
     get_value_fn_name |-> Some(<<"g", "e", "t">>),
     enum_derived_traits |-> <<<<"Debug">>>>,
     values_derived_traits |-> <<<<"Debug">>>>,
     impl_default |-> FALSE,
     impl_display |-> FALSE,
     impl_from_str |-> FALSE,
     file_paths_const_name |-> Some(<<"F", "I", "L", "E", "_", "P", "A", "T", "H", "S">>),
     get_path_fn_name |-> Some(<<"p", "a", "t", "h">>),
     file_bytes_const_name |-> None,
     get_bytes_fn_name |-> None,
     file_strings_const_name |-> None,
     get_string_fn_name |-> None]

\* the option settings the struct generators are called with: the auxiliary
\* constants none, one or both, and derive lists that are empty, are the
\* user's alone, or end in serde traits
StructOptionsSet ==
    {MinimalOptions,
     [MinimalOptions EXCEPT !.struct_data_const_name =
                                DefaultOptions.struct_data_const_name],
     [MinimalOptions EXCEPT !.source_path_const_name =
                                DefaultOptions.source_path_const_name,
                            !.serde_support = SerdeMixed(FALSE, FALSE)],
     [MinimalOptions EXCEPT !.serde_support = SerdeMixed(FALSE, TRUE)],
     [DefaultOptions EXCEPT !.derived_traits = <<<<"Debug">>, <<"Clone">>>>,
                            !.serde_support = SerdeYes],
     DefaultOptions}

\* the option settings the enum generator is called with: every combination
\* of the all-variants constant, the values constant and impl_default, each
\* without and with the remaining features
EnumOptionsSet ==
    {[MinimalOptions EXCEPT
         !.source_path_const_name =
             IF x THEN DefaultOptions.source_path_const_name ELSE None,
         !.all_variants_const_name =
             IF av THEN DefaultOptions.all_variants_const_name ELSE None,
         !.all_values_const_name =
             IF vals THEN DefaultOptions.all_values_const_name ELSE None,
         !.values_struct_name = IF x THEN Some(<<"V">>) ELSE None,
         !.get_value_fn_name =
             IF x THEN DefaultOptions.get_value_fn_name ELSE None,
         !.serde_support = IF av THEN SerdeYes ELSE SerdeNo,
         !.enum_derived_traits =
             IF dflt THEN <<<<"Debug">>>>
             ELSE IF av THEN <<<<"Clone">>>> ELSE <<>>,
         !.values_derived_traits = IF dflt THEN <<<<"Debug">>>> ELSE <<>>,
         !.impl_default = dflt,
         !.impl_display = x,
         !.impl_from_str = x]
     : av \in BOOLEAN, vals \in BOOLEAN, dflt \in BOOLEAN, x \in BOOLEAN}

\* the option settings define_enum_from_filenames is called with
FileOptionsSet ==
    {MinimalOptions,
     [MinimalOptions EXCEPT
         !.file_paths_const_name = DefaultOptions.file_paths_const_name],
     [MinimalOptions EXCEPT
         !.all_values_const_name = DefaultOptions.all_values_const_name,
         !.get_value_fn_name = DefaultOptions.get_value_fn_name],
     [DefaultOptions EXCEPT
         !.file_bytes_const_name = Some(<<"B">>),
         !.get_bytes_fn_name = Some(<<"b">>),
         !.file_strings_const_name = Some(<<"S">>),
         !.get_string_fn_name = Some(<<"s">>)],
     [MinimalOptions EXCEPT
         !.get_value_fn_name = DefaultOptions.get_value_fn_name,
         !.get_path_fn_name = DefaultOptions.get_path_fn_name,
         !.get_bytes_fn_name = Some(<<"b">>),
         !.get_string_fn_name = Some(<<"s">>)]}

SourcePaths == {None, Some(<<"c", ".", "y", "a", "m", "l">>)}

-----------------------------------------------------------------------------
(* Emitted code.  One record for the token stream of every generator: the  *)
(* enum declaration (if any), the struct declarations in order, the        *)
(* inherent impl blocks, the trait impls and the free constants.           *)

Item(item, name, ty, value) ==
    [item |-> item, name |-> name, ty |-> ty, value |-> value]

NoTokens ==
    [enum |-> None, impls |-> <<>>, default |-> None, display |-> FALSE,
     from_str |-> None, structs |-> <<>>, consts |-> <<>>]

TStr == TPrim("&str")
TRefSlice(x) == Ty("RefSlice", 0, <<>>, <<x>>)
TRef(x) == Ty("Ref", 0, <<>>, <<x>>)

\* the inherent impl block: present only when it has items
inherent_tokens(name, inherents) ==
    IF Len(inherents) = 0 THEN <<>>
    ELSE <<[name |-> name, items |-> inherents]>>

\* source_path_const emitted whenever the constant is named
source_path_const_named(source_file_path, options) ==
    IF options.source_path_const_name # None
    THEN <<Item("const", options.source_path_const_name[1], TStr,
                Lit("str", 0,
                    IF source_file_path = None THEN <<>>
                    ELSE source_file_path[1], <<>>, <<>>))>>
    ELSE <<>>

source_path_const(source_file_path, options) ==
    IF source_file_path # None /\ options.source_path_const_name # None
    THEN <<Item("const", options.source_path_const_name[1], TStr,
                Lit("str", 0, source_file_path[1], <<>>, <<>>))>>
    ELSE <<>>

define_structs(data, struct_name, source_file_path, options) ==
    LET derives == derive_attribute(options.derived_traits,
                                    options.serde_support, FALSE)
        struct_tokens == define_structs_inner(data, struct_name, options,
                                              derives)
        data_const ==
            IF options.struct_data_const_name # None
            THEN <<Item("const", options.struct_data_const_name[1],
                        TNamed(struct_name),
                        define_struct_value(data, struct_name))>>
            ELSE <<>>
        inherents == source_path_const(source_file_path, options) \o data_const
        idents ==
            decl_idents(struct_tokens) \cup {struct_name}
            \cup UNION {{inherents[i].name} \cup value_idents(inherents[i].value)
                        : i \in 1..Len(inherents)}
    IN  IF ident_panic(idents) THEN Panic
        ELSE Ok([NoTokens EXCEPT
                    !.structs = struct_tokens,
                    !.impls = inherent_tokens(struct_name, inherents)])

RECURSIVE define_structs_for_value(_, _, _)
RECURSIVE define_structs_for_tuple(_, _, _, _)

\* the loop over values.iter().enumerate() of the Tuple arm
define_structs_for_tuple(values, i, root_struct_name, options) ==
    IF i > Len(values) THEN <<>>
    ELSE define_structs_for_value(values[i],
             root_struct_name \o Sep \o FormatUsize(i - 1), options)
         \o define_structs_for_tuple(values, i + 1, root_struct_name, options)

\* returns what the call appends to dest
define_structs_for_value(data, root_struct_name, options) ==
    LET derives == derive_attribute(options.derived_traits,
                                    options.serde_support, FALSE)
    IN  CASE data.kind = "Option" /\ Len(data.items) = 1 ->
                define_structs_for_value(data.items[1], root_struct_name,
                                         options)
          [] data.kind = "Tuple" ->
                define_structs_for_tuple(data.items, 1, root_struct_name,
                                         options)
          [] data.kind \in {"Array", "Vec"} /\ Len(data.items) > 0 ->
                define_structs_for_value(data.items[1], root_struct_name,
                                         options)
          [] data.kind = "Struct" ->
                define_structs_inner(data, root_struct_name, options, derives)
          [] OTHER -> <<>>

\* establish_types_for_values without the check for an empty map
establish_types_for_values_unchecked(values, struct_name, options) ==
    LET unified == unify_values(values)
    IN  IF Len(unified) = 0
        THEN Ok([value_type |-> TPrim("()"), values |-> unified,
                 new_structs |-> <<>>])
        ELSE Ok([value_type |->
                     type_of_value(unified[1], struct_name, None, None, <<>>).ty,
                 values |-> unified,
                 new_structs |->
                     define_structs_for_value(unified[1], struct_name, options)])

\* the result of establish_types_for_values: its format_ident! calls
\* panic, or the triple is returned
types_established(value_type, values, new_structs) ==
    IF ident_panic(decl_idents(new_structs) \cup type_idents(value_type))
    THEN Panic
    ELSE Ok([value_type |-> value_type,
             values |-> values,
             new_structs |-> new_structs])

\* establish_types_for_values after the unification of the values
establish_types_for_unified(values, struct_name, options) ==
    types_established(
        type_of_value(values[1], struct_name, None, None, <<>>).ty,
        values,
        define_structs_for_value(values[1], struct_name, options))

establish_types_for_values(values, struct_name, options) ==
    IF Len(values) = 0 THEN Err("ExpectedValuesInMap", "")
    ELSE establish_types_for_unified(unify_values(values), struct_name,
                                     options)

\* the constant of define_structs_from_values / _from_file_contents
values_const(established, struct_name, options) ==
    IF options.struct_data_const_name # None
    THEN <<Item("const", options.struct_data_const_name[1],
                TRefSlice(established.value_type),
                Lit("Slice", 0, <<>>, <<>>,
                    [i \in 1..Len(established.values) |->
                        define_value(established.values[i], struct_name,
                                     None, None)]))>>
    ELSE <<>>

\* the tokens of define_structs_from_values / _from_file_contents once the
\* types are established
structs_and_const(established, struct_name, options) ==
    LET const_tokens == values_const(established, struct_name, options)
    IN  IF ident_panic(UNION {value_idents(const_tokens[i].value)
                              : i \in 1..Len(const_tokens)})
        THEN Panic
        ELSE Ok([NoTokens EXCEPT !.structs = established.new_structs,
                                 !.consts = const_tokens])

define_structs_from_values(data, struct_name, options) ==
    LET established ==
            establish_types_for_values(data.items, struct_name, options)
    IN  IF established.status # "Ok" THEN established
        ELSE structs_and_const(established.out, struct_name, options)

-----------------------------------------------------------------------------
(* Directories.  A directory is the sequence of its entries, in no         *)
(* particular order; an entry has a file name, is a regular file or not,   *)
(* and holds a decoded tree or text that does not parse.                   *)

\* the characters of the model in byte order
Ascii ==
    <<".", "0", "1", "2", "3", "4", "5", "6", "7", "8", "9",
      "A", "B", "C", "D", "E", "F", "G", "H", "I", "J", "K", "L", "M",
      "N", "O", "P", "Q", "R", "S", "T", "U", "V", "W", "X", "Y", "Z",
      "_",
      "a", "b", "c", "d", "e", "f", "g", "h", "i", "j", "k", "l", "m",
      "n", "o", "p", "q", "r", "s", "t", "u", "v", "w", "x", "y", "z">>

CharCode(c) == CHOOSE i \in 1..Len(Ascii) : Ascii[i] = c

\* std::ffi::OsStr::cmp: a < b, byte by byte
RECURSIVE OsStrLess(_, _)
OsStrLess(a, b) ==
    IF Len(b) = 0 THEN FALSE
    ELSE IF Len(a) = 0 THEN TRUE
    ELSE IF a[1] = b[1] THEN OsStrLess(Tail(a), Tail(b))
    ELSE CharCode(a[1]) < CharCode(b[1])

RECURSIVE sort_by_file_name(_)
InsertByFileName(e, sorted) ==
    LET before == SelectSeq(sorted, LAMBDA x : OsStrLess(x.file_name, e.file_name))
        after == SelectSeq(sorted, LAMBDA x : ~OsStrLess(x.file_name, e.file_name))
    IN  before \o <<e>> \o after
sort_by_file_name(entries) ==
    IF Len(entries) = 0 THEN <<>>
    ELSE InsertByFileName(Head(entries), sort_by_file_name(Tail(entries)))

\* the walker's standard filters skip the entry: it is hidden (its file
\* name starts with a dot) or an ignore rule matches it
is_hidden(e) == (Len(e.file_name) > 0 /\ e.file_name[1] = ".") \/ e.ignored

\* WalkBuilder::new(root).max_depth(Some(1)).sort_by_file_name(..)
\* .filter_entry(is_file).build(), then skip(1) for the root: the regular
\* files directly in the directory that the walker's standard filters do
\* not hide, by file name
walk_files(dir) ==
    sort_by_file_name(SelectSeq(dir,
        LAMBDA e : e.depth = 1 /\ e.is_file /\ ~is_hidden(e)))

YamlExt == <<".", "y", "a", "m", "l">>

\* the path of the directory the walks start from
DirPath == <<"d">>

\* entry.path() of a file of the directory
path_of(e) == DirPath \o <<"/">> \o e.file_name

\* the directory whose files are named after the keys of a record and hold
\* its values; with bad, the first entry's text does not parse
DirOf(record, bad) ==
    [i \in 1..Len(record.keys) |->
        [file_name |-> record.keys[i] \o YamlExt,
         is_file |-> TRUE,
         depth |-> 1,
         ignored |-> FALSE,
         parses |-> ~(bad /\ i = 1),
         raw |-> record.items[i]]]

\* what a directory may hold besides: a hidden file and a file that an
\* ignore rule matches, or a sub-directory with a file inside it, or a file
\* a.yml, or a file _a.yaml
ExtraEntries ==
    {<<>>,
     <<[file_name |-> <<".", "h">> \o YamlExt, is_file |-> TRUE, depth |-> 1,
        ignored |-> FALSE, parses |-> TRUE, raw |-> OptionNone],
       [file_name |-> <<"C">> \o YamlExt, is_file |-> TRUE, depth |-> 1,
        ignored |-> TRUE, parses |-> TRUE, raw |-> OptionNone]>>,
     <<[file_name |-> <<"A">>, is_file |-> FALSE, depth |-> 1,
        ignored |-> FALSE, parses |-> FALSE, raw |-> OptionNone],
       [file_name |-> <<"B">> \o YamlExt, is_file |-> TRUE, depth |-> 2,
        ignored |-> FALSE, parses |-> TRUE, raw |-> OptionNone]>>,
     <<[file_name |-> KeyA \o <<".", "y", "m", "l">>, is_file |-> TRUE,
        depth |-> 1, ignored |-> FALSE, parses |-> TRUE, raw |-> OptionNone]>>,
     <<[file_name |-> <<"_">> \o KeyA \o YamlExt, is_file |-> TRUE,
        depth |-> 1, ignored |-> FALSE, parses |-> TRUE, raw |-> OptionNone]>>}

values_from_file_contents(dir) ==
    LET files == walk_files(dir)
    IN  IF \E i \in 1..Len(files) : ~files[i].parses
        THEN Err("Parse", "")
        ELSE Ok([i \in 1..Len(files) |-> parse_value(files[i].raw)])

define_structs_from_file_contents(dir, struct_name, options) ==
    LET values == values_from_file_contents(dir)
    IN  IF values.status # "Ok" THEN values
        ELSE LET established ==
                     establish_types_for_values(values.out, struct_name,
                                                options)
             IN  IF established.status # "Ok" THEN established
                 ELSE structs_and_const(established.out, struct_name, options)

-----------------------------------------------------------------------------
(* codegen.rs: define_enum_from_variants_and_values, define_enum_from_keys *)

ValueSuffix == <<"_", "_", "V", "a", "l", "u", "e">>

\* Options { structs: options.enums.values_struct_options.clone(), .. }
value_options(options) ==
    [options EXCEPT !.derived_traits = options.values_derived_traits]

\* the values constant and its accessor
values_items(established, struct_name, options) ==
    <<Item("const", options.all_values_const_name[1],
           TRefSlice(established.value_type),
           Lit("Slice", 0, <<>>, <<>>,
               [i \in 1..Len(established.values) |->
                   define_value(established.values[i], struct_name,
                                None, None)]))>>
    \o (IF options.get_value_fn_name # None
        THEN <<Item("fn", options.get_value_fn_name[1],
                    TRef(established.value_type),
                    Lit("IndexBySelf", 0, options.all_values_const_name[1],
                        <<>>, <<>>))>>
        ELSE <<>>)

\* the tokens of the enum, its impl blocks and the structs of its values,
\* once the types of the values are established and the inherent items are
\* collected
enum_tokens(variants, enum_name, options, established, all_inherents, values_inherents) ==
    LET derives == derive_attribute(options.enum_derived_traits,
                                    options.serde_support,
                                    options.impl_display)
        idents ==
            Range(variants)
            \cup UNION {value_idents(values_inherents[i].value)
                        : i \in 1..Len(values_inherents)}
    IN  IF ~is_ident(enum_name) THEN Panic
        ELSE IF established.status # "Ok" THEN established
        ELSE IF ident_panic(idents) THEN Panic
        ELSE IF options.impl_default /\ Len(variants) = 0 THEN Panic
        ELSE Ok([enum |-> Some([name |-> enum_name, derives |-> derives,
                                variants |-> variants]),
                 impls |-> inherent_tokens(enum_name,
                                           all_inherents \o values_inherents),
                 default |-> IF options.impl_default THEN Some(variants[1])
                             ELSE None,
                 display |-> options.impl_display,
                 from_str |-> IF options.impl_from_str
                              THEN Some([i \in 1..Len(variants) |->
                                          [string |-> variants[i],
                                           variant |-> variants[i]]])
                              ELSE None,
                 structs |-> established.out.new_structs,
                 consts |-> <<>>])

\* the enum with the values whose types are established
enum_with_values(variants, enum_name, options, established, all_inherents, with_values, struct_name) ==
    enum_tokens(variants, enum_name, options, established, all_inherents,
                IF with_values /\ established.status = "Ok"
                THEN values_items(established.out, struct_name, options)
                ELSE <<>>)

define_enum_from_variants_and_values(variants, values, use_values, enum_name, source_file_path, options, inherents) ==
    LET all_variants_const ==
            IF options.all_variants_const_name # None
            THEN <<Item("const", options.all_variants_const_name[1],
                        TRefSlice(TPrim("Self")),
                        Lit("Variants", 0, <<>>, variants, <<>>))>>
            ELSE <<>>
        with_values == use_values /\ options.all_values_const_name # None
        struct_name ==
            IF options.values_struct_name # None
            THEN options.values_struct_name[1]
            ELSE enum_name \o ValueSuffix
    IN  enum_with_values(variants, enum_name, options,
            IF with_values
            THEN establish_types_for_values(values, struct_name,
                                            value_options(options))
            ELSE Ok([value_type |-> TPrim("()"), values |-> <<>>,
                     new_structs |-> <<>>]),
            inherents \o source_path_const(source_file_path, options)
                      \o all_variants_const,
            with_values, struct_name)

\* define_enum_from_keys over a map that iterates in sorted key order
RECURSIVE SortedKeys(_)
SortedKeys(keys) ==
    IF Len(keys) = 0 THEN <<>>
    ELSE LET rest == SortedKeys(Tail(keys))
         IN  SelectSeq(rest, LAMBDA k : OsStrLess(k, Head(keys)))
             \o <<Head(keys)>>
             \o SelectSeq(rest, LAMBDA k : ~OsStrLess(k, Head(keys)))
define_enum_from_sorted_keys(data, enum_name, source_file_path, options) ==
    define_enum_from_variants_and_values(SortedKeys(data.keys), data.items,
        TRUE, enum_name, source_file_path, options, <<>>)

\* define_enum_from_keys handing over the values in reverse order
define_enum_from_keys_values_reversed(data, enum_name, source_file_path, options) ==
    define_enum_from_variants_and_values(data.keys,
        [i \in 1..Len(data.items) |-> data.items[Len(data.items) + 1 - i]],
        TRUE, enum_name, source_file_path, options, <<>>)

define_enum_from_keys(data, enum_name, source_file_path, options) ==
    define_enum_from_variants_and_values(data.keys, data.items, TRUE,
        enum_name, source_file_path, options, <<>>)

-----------------------------------------------------------------------------
(* codegen.rs: define_enum_from_filenames.                                 *)

\* char::to_uppercase on the characters of the model
Upper(c) ==
    IF c \in IdentStart /\ c # "_" /\ CharCode(c) > CharCode("_")
    THEN Ascii[CharCode(c) - (CharCode("a") - CharCode("A"))]
    ELSE c

\* case::CaseExt::to_camel: leading underscores are skipped, every other
\* underscore is dropped and starts a new word, and the first character of
\* every word is upper-cased
RECURSIVE to_camel_internal(_, _, _)
to_camel_internal(term, at_new_word, acc) ==
    IF Len(term) = 0 THEN acc
    ELSE IF Head(term) = "_" THEN to_camel_internal(Tail(term), TRUE, acc)
    ELSE IF at_new_word
         THEN to_camel_internal(Tail(term), FALSE, Append(acc, Upper(Head(term))))
         ELSE to_camel_internal(Tail(term), FALSE, Append(acc, Head(term)))

to_camel(term) == to_camel_internal(term, TRUE, <<>>)

\* Path::file_stem of a file name: the name up to its last dot, the whole
\* name when it has no dot or only a leading one, nothing for ".."
file_stem(file_name) ==
    LET dots == {i \in 1..Len(file_name) : file_name[i] = "."}
        last == IF dots = {} THEN 0
                ELSE CHOOSE i \in dots : \A j \in dots : j <= i
    IN  IF file_name = <<".", ".">> THEN None
        ELSE IF last <= 1 THEN Some(file_name)
        ELSE Some(SubSeq(file_name, 1, last - 1))

\* the constant of file paths, bytes or strings, and its accessor
file_const(kind, const_name, fn_name, filepaths) ==
    IF const_name = None THEN <<>>
    ELSE <<Item("const", const_name[1], TRefSlice(TPrim(kind)),
                Lit(kind, 0, <<>>, filepaths, <<>>))>>
         \o (IF fn_name = None THEN <<>>
             ELSE <<Item("fn", fn_name[1], TPrim(kind),
                         Lit("IndexBySelf", 0, const_name[1], <<>>, <<>>))>>)

\* define_enum_from_filenames that takes the variants in directory order
define_enum_from_filenames_unsorted(dir, enum_name, options) ==
    LET files == SelectSeq(dir,
                     LAMBDA e : e.depth = 1 /\ e.is_file /\ ~is_hidden(e))
        filenames == [i \in 1..Len(files) |->
                         to_camel(file_stem(files[i].file_name)[1])]
    IN  define_enum_from_variants_and_values(filenames, <<>>, FALSE,
            enum_name, Some(DirPath), options,
            file_const("&str", options.file_paths_const_name,
                       options.get_path_fn_name,
                       [i \in 1..Len(files) |-> path_of(files[i])]))

define_enum_from_filenames(dir, enum_name, options) ==
    LET files == walk_files(dir)
        filepaths == [i \in 1..Len(files) |-> path_of(files[i])]
        stems == [i \in 1..Len(files) |-> file_stem(files[i].file_name)]
        filenames == [i \in 1..Len(files) |-> to_camel(stems[i][1])]
        extra_inherents ==
            file_const("&str", options.file_paths_const_name,
                       options.get_path_fn_name, filepaths)
            \o file_const("include_bytes", options.file_bytes_const_name,
                          options.get_bytes_fn_name, filepaths)
            \o file_const("include_str", options.file_strings_const_name,
                          options.get_string_fn_name, filepaths)
        values ==
            IF options.all_values_const_name # None
            THEN values_from_file_contents(dir)
            ELSE Ok(<<>>)
    IN  IF \E i \in 1..Len(files) : stems[i] = None
        THEN Err("UnsupportedFilePath", "")
        ELSE IF values.status # "Ok" THEN values
        ELSE define_enum_from_variants_and_values(filenames, values.out,
                 Len(values.out) > 0, enum_name, Some(DirPath), options,
                 extra_inherents)

-----------------------------------------------------------------------------
(* edres/src/lib.rs: generate_structs_from_source and                      *)
(* generate_enum_from_source.  The source text is given by what the format *)
(* decoder makes of it: no tree (a parse error) or the decoded tree.       *)

generate_structs_from_source(source, struct_name, options) ==
    IF source = None THEN Err("Parse", "")
    ELSE LET value == assume_struct(parse_value(source[1]))
         IN  IF value.status # "Ok" THEN value
             ELSE define_structs(value.out, struct_name, None, options)

generate_enum_from_source(source, enum_name, options) ==
    IF source = None THEN Err("Parse", "")
    ELSE LET value == assume_struct(parse_value(source[1]))
         IN  IF value.status # "Ok" THEN value
             ELSE define_enum_from_keys(value.out, enum_name, None, options)

-----------------------------------------------------------------------------
(* edres/src/lib.rs and files.rs: generate_structs, generate_enum,         *)
(* create_structs, create_enum, ensure_destination, write_destination.     *)
(* A source file is readable or not and holds text the decoder makes a     *)
(* tree of, or not.  The file system seen by a create_* call is the record *)
(* fs: dest is the content of the destination file (None when there is no  *)
(* such file), parent tells whether its parent directory exists and writes *)
(* counts the std::fs::write calls that were made on the destination.      *)

SrcFile(readable, parsed) == [readable |-> readable, parsed |-> parsed]

\* the path of the source file
SrcPath == <<"c", ".", "y", "a", "m", "l">>

\* content of the destination that is not UTF-8: read_to_string fails on it
Garbage == [garbage |-> TRUE]

generate_structs(src_file, struct_name, options) ==
    IF ~src_file.readable THEN Err("Io", "")
    ELSE IF src_file.parsed = None THEN Err("Parse", "")
    ELSE LET value == assume_struct(parse_value(src_file.parsed[1]))
         IN  IF value.status # "Ok" THEN value
             ELSE define_structs(value.out, struct_name, Some(SrcPath),
                                 options)

generate_enum(src_file, enum_name, options) ==
    IF ~src_file.readable THEN Err("Io", "")
    ELSE IF src_file.parsed = None THEN Err("Parse", "")
    ELSE LET value == assume_struct(parse_value(src_file.parsed[1]))
         IN  IF value.status # "Ok" THEN value
             ELSE define_enum_from_keys(value.out, enum_name, Some(SrcPath),
                                        options)

\* std::fs::create_dir_all on the parent of the destination
ensure_destination(fs, create_dirs) ==
    IF create_dirs THEN [fs EXCEPT !.parent = TRUE] ELSE fs

\* write_destination that compares nothing
write_destination_always(fs, output, write_only_if_changed) ==
    IF ~fs.parent THEN [result |-> Err("Io", ""), fs |-> fs]
    ELSE [result |-> Ok(<<>>),
          fs |-> [fs EXCEPT !.dest = Some(output), !.writes = @ + 1]]

\* std::fs::write fails when the parent directory is missing
write_destination(fs, output, write_only_if_changed) ==
    LET should_write ==
            IF write_only_if_changed
            THEN IF fs.dest # None /\ fs.dest[1] # Garbage
                 THEN fs.dest[1] # output
                 ELSE TRUE
            ELSE TRUE
    IN  IF ~should_write THEN [result |-> Ok(<<>>), fs |-> fs]
        ELSE IF ~fs.parent THEN [result |-> Err("Io", ""), fs |-> fs]
        ELSE [result |-> Ok(<<>>),
              fs |-> [fs EXCEPT !.dest = Some(output), !.writes = @ + 1]]

\* the steps of a create_* function after `let output = generate_*(..)?`:
\* the error is returned, or the destination is prepared and written
write_output(output, fs, create_dirs, write_only_if_changed) ==
    IF output.status # "Ok" THEN [result |-> output, fs |-> fs]
    ELSE write_destination(ensure_destination(fs, create_dirs),
                           output.out, write_only_if_changed)

\* the same steps with the destination prepared before the generation
write_output_dirs_first(output, fs, create_dirs, write_only_if_changed) ==
    IF output.status # "Ok"
    THEN [result |-> output, fs |-> ensure_destination(fs, create_dirs)]
    ELSE write_destination(ensure_destination(fs, create_dirs),
                           output.out, write_only_if_changed)

\* create_structs with the destination prepared before the generation
create_structs_dirs_first(src_file, fs, struct_name, options, create_dirs, write_only_if_changed) ==
    write_output_dirs_first(generate_structs(src_file, struct_name, options),
                            fs, create_dirs, write_only_if_changed)

create_structs(src_file, fs, struct_name, options, create_dirs, write_only_if_changed) ==
    write_output(generate_structs(src_file, struct_name, options),
                 fs, create_dirs, write_only_if_changed)

create_enum(src_file, fs, enum_name, options, create_dirs, write_only_if_changed) ==
    write_output(generate_enum(src_file, enum_name, options),
                 fs, create_dirs, write_only_if_changed)

-----------------------------------------------------------------------------
(* parsing/mod.rs: preferred_int and preferred_float.  An i128 is the       *)
(* sequence of its 16 bytes in two's complement, most significant byte     *)
(* first; an iN is the sequence of its N/8 bytes.  The payload of an       *)
(* integer Value is such a byte sequence.                                  *)

Fill(byte, w) == [i \in 1..w |-> byte]

\* iN::MIN and iN::MAX, for an iN of w bytes
IntBounds(w) ==
    [MIN |-> <<128>> \o Fill(0, w - 1), MAX |-> <<127>> \o Fill(255, w - 1)]

\* x as i128, for x: iN: sign extension; a negative x has its top bit set
SignExtend(b, w) == Fill(IF b[1] >= 128 THEN 255 ELSE 0, w - Len(b)) \o b

\* value as iN: the low w bytes
CastTo(b, w) == SubSeq(b, Len(b) - w + 1, Len(b))

\* a < b for byte sequences of one length read as unsigned numbers
RECURSIVE UnsignedLess(_, _)
UnsignedLess(a, b) ==
    /\ Len(a) > 0
    /\ \/ a[1] < b[1]
       \/ a[1] = b[1] /\ UnsignedLess(Tail(a), Tail(b))

\* a <= b for two i128
IntLessEq(a, b) ==
    \/ a = b
    \/ IF (a[1] >= 128) # (b[1] >= 128) THEN a[1] >= 128
       ELSE UnsignedLess(a, b)

\* value >= (iN::MIN as i128) && value <= (iN::MAX as i128)
fits(value, w) ==
    /\ IntLessEq(SignExtend(IntBounds(w).MIN, 16), value)
    /\ IntLessEq(value, SignExtend(IntBounds(w).MAX, 16))

\* preferred_int whose guards exclude iN::MAX
preferred_int_below_max(value, preferred) ==
    LET below(w) == fits(value, w) /\ value # SignExtend(IntBounds(w).MAX, 16)
    IN  IF preferred = "ISize" THEN Scalar("ISize", CastTo(value, 8))
        ELSE IF preferred = "I8" /\ below(1)
        THEN Scalar("I8", CastTo(value, 1))
        ELSE IF preferred \in {"I8", "I16"} /\ below(2)
        THEN Scalar("I16", CastTo(value, 2))
        ELSE IF preferred \in {"I8", "I16", "I32"} /\ below(4)
        THEN Scalar("I32", CastTo(value, 4))
        ELSE IF preferred \in {"I8", "I16", "I32", "I64"} /\ below(8)
        THEN Scalar("I64", CastTo(value, 8))
        ELSE Scalar("I128", value)

\* isize is 8 bytes wide
preferred_int(value, preferred) ==
    IF preferred = "ISize" THEN Scalar("ISize", CastTo(value, 8))
    ELSE IF preferred = "I8" /\ fits(value, 1)
    THEN Scalar("I8", CastTo(value, 1))
    ELSE IF preferred \in {"I8", "I16"} /\ fits(value, 2)
    THEN Scalar("I16", CastTo(value, 2))
    ELSE IF preferred \in {"I8", "I16", "I32"} /\ fits(value, 4)
    THEN Scalar("I32", CastTo(value, 4))
    ELSE IF preferred \in {"I8", "I16", "I32", "I64"} /\ fits(value, 8)
    THEN Scalar("I64", CastTo(value, 8))
    ELSE Scalar("I128", value)

\* an f64 is given by its bits, which are not interpreted, and by whether
\* it lies in f32::MIN..=f32::MAX (narrow)
preferred_float(value, preferred) ==
    IF preferred = "F32" /\ value.narrow THEN Scalar("F32", value.bits)
    ELSE Scalar("F64", value.bits)

-----------------------------------------------------------------------------
(* parsing/yaml.rs.  A serde_yaml::Value is a record: y is the variant, b  *)
(* the payload of a Bool, n of a Number and s of a String, keys are the    *)
(* keys of a Mapping and items the elements of a Sequence, the values of a *)
(* Mapping or the value of a Tagged.  A Number is (repr, bits, narrow):    *)
(* repr tells which of is_f64, is_i64 and is_u64 holds and bits are its 8  *)
(* bytes.                                                                  *)

Yaml(y, b, n, s, keys, items) ==
    [y |-> y, b |-> b, n |-> n, s |-> s, keys |-> keys, items |-> items]

\* the first error of the results, or the values of all of them
collect(results) ==
    IF \E i \in 1..Len(results) : results[i].status # "Ok"
    THEN results[CHOOSE i \in 1..Len(results) :
                    /\ results[i].status # "Ok"
                    /\ \A j \in 1..(i - 1) : results[j].status = "Ok"]
    ELSE Ok([i \in 1..Len(results) |-> results[i].out])

\* the Sequence and Mapping arms, given the collected elements resp.
\* values: key.as_str() is None for a key that is not a String
collected_value(raw_value, collected, max_array_size) ==
    IF \E i \in 1..Len(raw_value.keys) : raw_value.keys[i].y # "String"
    THEN Err("ExpectedStringKey", "")
    ELSE IF collected.status # "Ok" THEN collected
    ELSE IF raw_value.y = "Sequence"
    THEN Ok(array_or_vec(collected.out, max_array_size))
    ELSE Ok(Struct([i \in 1..Len(raw_value.keys) |-> raw_value.keys[i].s],
                   collected.out))

RECURSIVE parse_value_non_unified(_, _)
parse_value_non_unified(raw_value, options) ==
    CASE raw_value.y = "Null" -> Ok(OptionNone)
      [] raw_value.y = "Bool" ->
            Ok(Scalar("Bool", IF raw_value.b THEN 1 ELSE 0))
      [] raw_value.y = "Number" ->
            IF raw_value.n.repr = "f64"
            THEN Ok(preferred_float(raw_value.n, options.default_float_size))
            ELSE IF raw_value.n.repr = "i64"
            THEN Ok(preferred_int(SignExtend(raw_value.n.bits, 16),
                                  options.default_int_size))
            ELSE Ok(preferred_int(Fill(0, 8) \o raw_value.n.bits,
                                  options.default_int_size))
      [] raw_value.y = "String" -> Ok(Scalar("String", raw_value.s))
      [] raw_value.y \in {"Sequence", "Mapping"} ->
            collected_value(
                raw_value,
                collect([i \in 1..Len(raw_value.items) |->
                            parse_value_non_unified(raw_value.items[i],
                                                    options)]),
                options.max_array_size)
      [] raw_value.y = "Tagged" ->
            parse_value_non_unified(raw_value.items[1], options)

\* yaml::parse_value, given the result of parse_value_non_unified
parse_unified(non_unified) ==
    IF non_unified.status # "Ok" THEN non_unified
    ELSE Ok(parse_value(non_unified.out))

\* the source text is given by what serde_yaml::from_str makes of it: no
\* tree (an error) or the tree
parse_source(source, options) ==
    IF source = None THEN Err("Parse", "")
    ELSE parse_unified(parse_value_non_unified(source[1], options))

\* some assert_eq!(values.len(), *len) of type_of_value failed
RECURSIVE HasPanic(_)
HasPanic(ty) ==
    ty.t = "panic" \/ \E i \in 1..Len(ty.args) : HasPanic(ty.args[i])

\* the type and the literal the generators emit for a value
type_and_literal(typed, value, struct_name) ==
    IF HasPanic(typed.ty) THEN Panic
    ELSE Ok([ty |-> typed.ty,
             lit |-> define_value(value, struct_name, None, None)])

-----------------------------------------------------------------------------
(* The state machine.  value is the Value the calls are about, op the      *)
(* function called last ("none" before the first call), args its other     *)
(* arguments and result what it returned.  again is what the same call     *)
(* returned in a second run, once it was made.  fs is the file system the  *)
(* create_* functions write to.                                            *)

VARIABLES value, op, args, result, again, fs

vars == <<value, op, args, result, run, again, fs>>

NoArgs == [name |-> <<>>]

\* no destination file, no parent directory, nothing written
NoFs == [dest |-> None, parent |-> FALSE, writes |-> 0]

Init ==
    /\ value \in Inputs
    /\ op = "none"
    /\ args = NoArgs
    /\ result = Ok(<<>>)
    /\ run = 0
    /\ again = None
    /\ fs = NoFs

Call(name, a, r) ==
    /\ op = "none"
    /\ op' = name
    /\ args' = a
    /\ result' = r
    /\ run' = run + 1
    /\ UNCHANGED <<value, again, fs>>

\* the names and options define_structs is called with
StructCalls ==
    ({RootName} \X StructOptionsSet)
    \cup ({BadName} \X {MinimalOptions, DefaultOptions})

DefineStructs ==
    /\ value.kind = "Struct"
    /\ \E c \in StructCalls, path \in SourcePaths :
          Call("define_structs",
               [name |-> c[1], path |-> path, options |-> c[2]],
               define_structs(value, c[1], path, c[2]))

\* the names and options define_enum_from_keys is called with
EnumCalls ==
    ({RootName} \X EnumOptionsSet)
    \cup ({BadName} \X {MinimalOptions, DefaultOptions})

DefineEnumFromKeys ==
    /\ value.kind = "Struct"
    /\ \E c \in EnumCalls, path \in SourcePaths \ {None} :
          Call("define_enum_from_keys",
               [name |-> c[1], path |-> path, options |-> c[2]],
               define_enum_from_keys(value, c[1], path, c[2]))

DefineStructsFromValues ==
    /\ value.kind = "Struct"
    /\ \E options \in StructOptionsSet :
          Call("define_structs_from_values",
               [name |-> RootName, options |-> options],
               define_structs_from_values(value, RootName, options))

DefineStructsFromFileContents ==
    /\ value.kind = "Struct"
    /\ \E options \in {MinimalOptions, DefaultOptions}, bad \in BOOLEAN :
          Call("define_structs_from_file_contents",
               [name |-> RootName, options |-> options,
                dir |-> DirOf(value, bad)],
               define_structs_from_file_contents(DirOf(value, bad), RootName,
                                                 options))

\* the directories define_enum_from_filenames is called on
Dirs ==
    {DirOf(value, FALSE) \o extra : extra \in ExtraEntries}
    \cup {DirOf(value, TRUE)}

DefineEnumFromFilenames ==
    /\ value.kind = "Struct"
    /\ \E options \in FileOptionsSet, dir \in Dirs :
          Call("define_enum_from_filenames",
               [name |-> RootName, options |-> options, dir |-> dir],
               define_enum_from_filenames(dir, RootName, options))

TypeOfValue ==
    Call("type_of_value", [name |-> RootName],
         Ok(type_of_value(value, RootName, None, None, <<>>)))

UnifyValue ==
    Call("unify_value", NoArgs, Ok(unify_value(value)))

\* the parsers' parse_value on the tree the decoder returned
ParseValue ==
    Call("parse_value", NoArgs, Ok(parse_value(value)))

\* the values a slice may hold next to value
Siblings == {Unit, OptionNone, OptionSome(Unit)}

Slices ==
    {<<value>>} \cup {<<value, s>> : s \in Siblings}
                \cup {<<s, value>> : s \in Siblings}

UnifyValues ==
    \E values \in Slices :
        Call("unify_values", [name |-> <<>>, values |-> values],
             Ok(unify_values(values)))

MaxArraySizes == {None} \cup {Some(m) : m \in 0..MaxArr}

ArrayOrVec ==
    /\ value.kind = "Vec"
    /\ \E max_array_size \in MaxArraySizes :
          Call("array_or_vec",
               [name |-> <<>>, seq |-> value.items,
                max_array_size |-> max_array_size],
               Ok(array_or_vec(value.items, max_array_size)))

AssumeStruct ==
    Call("assume_struct", NoArgs, assume_struct(value))

Sources == {None, Some(value)}

GenerateStructsFromSource ==
    \E source \in Sources :
        Call("generate_structs_from_source",
             [name |-> RootName, source |-> source,
              options |-> DefaultOptions],
             generate_structs_from_source(source, RootName, DefaultOptions))

GenerateEnumFromSource ==
    \E source \in Sources :
        Call("generate_enum_from_source",
             [name |-> RootName, source |-> source,
              options |-> DefaultOptions],
             generate_enum_from_source(source, RootName, DefaultOptions))

\* the generators a second run is made of
Generators ==
    {"define_structs", "define_enum_from_keys", "define_structs_from_values"}

\* the call of generator name on value v with the arguments a
Generate(name, v, a) ==
    CASE name = "define_structs" ->
            define_structs(v, a.name, a.path, a.options)
      [] name = "define_enum_from_keys" ->
            define_enum_from_keys(v, a.name, a.path, a.options)
      [] name = "define_structs_from_values" ->
            define_structs_from_values(v, a.name, a.options)

\* a second, independent run of the call that was made
Rerun ==
    /\ op \in Generators
    /\ again = None
    /\ again' = Some(Generate(op, value, args))
    /\ run' = run + 1
    /\ UNCHANGED <<value, op, args, result, fs>>

Next ==
    \/ DefineStructs
    \/ DefineEnumFromKeys
    \/ DefineStructsFromValues
    \/ DefineStructsFromFileContents
    \/ DefineEnumFromFilenames
    \/ TypeOfValue
    \/ UnifyValue
    \/ ParseValue
    \/ UnifyValues
    \/ ArrayOrVec
    \/ AssumeStruct
    \/ GenerateStructsFromSource
    \/ GenerateEnumFromSource
    \/ Rerun

Spec == Init /\ [][Next]_vars

-----------------------------------------------------------------------------
(* The create_* functions on a file system: a second specification, in     *)
(* which create_structs and create_enum are called again and again on one  *)
(* destination, and the destination is removed or overwritten by others in *)
(* between.                                                                *)

\* Largest number of writes to the destination that are followed.
MaxWrites == 3

\* the source files: unreadable, not parsing, a sequence at the root, a key
\* that is no identifier, and two records that generate different code
SrcFiles ==
    {SrcFile(FALSE, None), SrcFile(TRUE, None),
     SrcFile(TRUE, Some(Vec(<<Unit>>))),
     SrcFile(TRUE, Some(Struct(<<BadKey>>, <<Unit>>))),
     SrcFile(TRUE, Some(Struct(<<KeyA>>, <<Unit>>))),
     SrcFile(TRUE, Some(Struct(<<KeyB>>, <<Struct(<<>>, <<>>)>>)))}

\* the call before this one: its function, source and outcome
NoCall == [op |-> "none", source |-> SrcFile(FALSE, None), status |-> "Ok"]
LastCall ==
    IF op \in {"create_structs", "create_enum"}
    THEN [op |-> op, source |-> args.source, status |-> result.status]
    ELSE NoCall

FsInit ==
    /\ value = Unit
    /\ op = "none"
    /\ args = NoArgs
    /\ result = Ok(<<>>)
    /\ run = 0
    /\ again = None
    /\ fs \in {NoFs, [NoFs EXCEPT !.parent = TRUE]}

\* the call, its arguments, the file system and the call before it
Created(name, src_file, create_dirs, write_only_if_changed, r) ==
    /\ fs.writes < MaxWrites
    /\ op' = name
    /\ args' = [name |-> RootName, source |-> src_file,
                create_dirs |-> create_dirs,
                write_only_if_changed |-> write_only_if_changed,
                before |-> fs, last |-> LastCall]
    /\ result' = r.result
    /\ fs' = r.fs
    /\ UNCHANGED <<value, run, again>>

CreateStructs ==
    \E src_file \in SrcFiles, create_dirs \in BOOLEAN,
       write_only_if_changed \in BOOLEAN :
        Created("create_structs", src_file, create_dirs,
                write_only_if_changed,
                create_structs(src_file, fs, RootName, MinimalOptions,
                               create_dirs, write_only_if_changed))

CreateEnum ==
    \E src_file \in SrcFiles, create_dirs \in BOOLEAN,
       write_only_if_changed \in BOOLEAN :
        Created("create_enum", src_file, create_dirs, write_only_if_changed,
                create_enum(src_file, fs, RootName, MinimalOptions,
                            create_dirs, write_only_if_changed))

\* somebody else removes the destination, or its directory, or fills the
\* destination with bytes that are not text
Disturb ==
    /\ op # "disturb"
    /\ \E disturbed \in {[fs EXCEPT !.dest = None],
                         [fs EXCEPT !.dest = None, !.parent = FALSE],
                         [fs EXCEPT !.dest = IF fs.parent THEN Some(Garbage)
                                            ELSE None]} :
          /\ disturbed # fs
          /\ fs' = disturbed
    /\ op' = "disturb"
    /\ args' = NoArgs
    /\ result' = Ok(<<>>)
    /\ UNCHANGED <<value, run, again>>

FsNext ==
    \/ CreateStructs
    \/ CreateEnum
    \/ Disturb

FsSpec == FsInit /\ [][FsNext]_vars

-----------------------------------------------------------------------------
(* The parsers: preferred_int on its own, and parse_source followed by the *)
(* generators' type_of_value and define_value on the parsed value.         *)

\* b + d for an i128 b and d in -1..1, wrapping
RECURSIVE IntAdd(_, _)
IntAdd(b, d) ==
    IF Len(b) = 0 \/ d = 0 THEN b
    ELSE LET s == b[Len(b)] + d
         IN  IntAdd(SubSeq(b, 1, Len(b) - 1),
                    IF s > 255 THEN 1 ELSE IF s < 0 THEN -1 ELSE 0)
             \o <<s % 256>>

\* the i128 preferred_int is called with: the bounds of every width and
\* their neighbours, 0, 1, -1, 129, 65537, u64::MAX, i128::MIN and i128::MAX
IntInputs ==
    UNION {{IntAdd(SignExtend(bound, 16), d) : d \in {-1, 0, 1}}
           : bound \in UNION {{IntBounds(w).MIN, IntBounds(w).MAX}
                              : w \in {1, 2, 4, 8}}}
    \cup {Fill(0, 16), Fill(0, 15) \o <<1>>, Fill(255, 16),
          Fill(0, 15) \o <<129>>, Fill(0, 13) \o <<1, 0, 1>>,
          Fill(0, 8) \o Fill(255, 8), IntBounds(16).MIN, IntBounds(16).MAX}

\* the YAML documents of at most MaxYamlNodes nodes: scalars null, true, 1,
\* 18446744073709551615, a float inside and one outside the f32 range and
\* a string; mappings with string keys and with a key that is a number
RECURSIVE YamlOfSize(_)
RECURSIVE YamlSeqsOfTotal(_, _)

YamlSeqsOfTotal(m, len) ==
    IF m = 0 THEN {<<>>}
    ELSE IF len = 0 THEN {}
    ELSE UNION {{<<v>> \o rest : v \in YamlOfSize(k),
                                  rest \in YamlSeqsOfTotal(m - k, len - 1)}
                : k \in 1..m}

YamlOfSize(n) ==
    LET kids == YamlSeqsOfTotal(n - 1, MaxLen)
        Number(repr, bits, narrow) ==
            [repr |-> repr, bits |-> bits, narrow |-> narrow]
        YamlNode(y, keys, items) ==
            Yaml(y, FALSE, Number("", <<>>, FALSE), <<>>, keys, items)
        YamlNumber(number) == Yaml("Number", FALSE, number, <<>>, <<>>, <<>>)
        YamlString(s) ==
            Yaml("String", FALSE, Number("", <<>>, FALSE), s, <<>>, <<>>)
        one == YamlNumber(Number("i64", Fill(0, 7) \o <<1>>, TRUE))
        keys == {<<>>, <<YamlString(KeyA)>>, <<one>>,
                 <<YamlString(KeyA), YamlString(KeyB)>>,
                 <<YamlString(KeyB), one>>}
    IN  (IF n = 1
         THEN {YamlNode("Null", <<>>, <<>>),
               [YamlNode("Bool", <<>>, <<>>) EXCEPT !.b = TRUE],
               one,
               YamlNumber(Number("u64", Fill(255, 8), TRUE)),
               YamlNumber(Number("f64", Fill(64, 8), TRUE)),
               YamlNumber(Number("f64", Fill(127, 8), FALSE)),
               YamlString(KeyA)}
         ELSE {})
        \cup {YamlNode("Sequence", <<>>, s) : s \in kids}
        \cup UNION {{YamlNode("Mapping", ks, s)
                     : ks \in {q \in keys : Len(q) = Len(s)}} : s \in kids}
        \cup {YamlNode("Tagged", <<>>, s) : s \in {t \in kids : Len(t) = 1}}

\* options.rs: ParseOptions, by the fields the parser reads, with every
\* IntSize and FloatSize
ParseOptionsSet ==
    [default_int_size : {"I8", "I16", "I32", "I64", "I128", "ISize"},
     default_float_size : {"F32", "F64"},
     max_array_size : MaxArraySizes]

ParseInit ==
    /\ value = Unit
    /\ op = "none"
    /\ args = NoArgs
    /\ result = Ok(<<>>)
    /\ run = 0
    /\ again = None
    /\ fs = NoFs

PreferredInt ==
    /\ op = "none"
    /\ \E v \in IntInputs, options \in ParseOptionsSet :
          Call("preferred_int",
               [name |-> <<>>, value |-> v,
                preferred |-> options.default_int_size],
               Ok(preferred_int(v, options.default_int_size)))

ParseSource ==
    /\ op = "none"
    /\ \E source \in {None} \cup {Some(t) : t \in UNION {YamlOfSize(n)
                                                : n \in 1..MaxYamlNodes}},
          options \in ParseOptionsSet :
          Call("parse_source",
               [name |-> RootName, source |-> source, options |-> options],
               parse_source(source, options))

\* the generators on the value that parse_source returned
TypeAndLiteral ==
    /\ op = "parse_source"
    /\ result.status = "Ok"
    /\ op' = "type_and_literal"
    /\ value' = result.out
    /\ result' = type_and_literal(
                     type_of_value(result.out, RootName, None, None, <<>>),
                     result.out, RootName)
    /\ UNCHANGED <<args, run, again, fs>>

ParseNext ==
    \/ PreferredInt
    \/ ParseSource
    \/ TypeAndLiteral

ParseSpec == ParseInit /\ [][ParseNext]_vars

-----------------------------------------------------------------------------
(* Reading emitted code.                                                   *)

\* the items of all inherent impl blocks
ImplItems(out) == FlattenSeq([i \in 1..Len(out.impls) |-> out.impls[i].items])

\* the items, inherent or free, that define the constant const_name
ConstsNamed(out, const_name) ==
    SelectSeq(ImplItems(out) \o out.consts,
              LAMBDA it : it.item = "const" /\ it.name = const_name)

DeclNames(decls) == [i \in 1..Len(decls) |-> decls[i].name]
FieldKeys(decl) == [j \in 1..Len(decl.fields) |-> decl.fields[j].key]

\* the struct literals inside a literal, as (name, field names)
RECURSIVE LitStructs(_)
LitStructs(lit) ==
    (IF lit.l = "Struct" THEN {[name |-> lit.name, keys |-> lit.keys]} ELSE {})
    \cup UNION {LitStructs(lit.args[i]) : i \in 1..Len(lit.args)}

\* every Array and Vec of the tree holds copies of one element
RECURSIVE Homogeneous(_)
Homogeneous(v) ==
    /\ v.kind \in {"Array", "Vec"} =>
          \A i \in 1..Len(v.items) : v.items[i] = v.items[1]
    /\ \A i \in 1..Len(v.items) : Homogeneous(v.items[i])

\* the type of the struct named name exists among decls with these fields
Declared(decls, name, keys) ==
    \E i \in 1..Len(decls) : decls[i].name = name /\ FieldKeys(decls[i]) = keys

-----------------------------------------------------------------------------
(* C1: when define_structs emits the data constant, every struct name the  *)
(* constant's literal refers to is the name of an emitted struct           *)
(* declaration with the same field names in the same order.  Stated for    *)
(* the trees whose Arrays and Vecs hold equal elements, so that a          *)
(* violation is never due to a sequence of differently shaped records.     *)
C1_LiteralMatchesDeclarations ==
    (/\ op = "define_structs"
     /\ result.status = "Ok"
     /\ args.options.struct_data_const_name # None
     /\ Homogeneous(value))
    => \A c \in Range(ConstsNamed(result.out,
                                  args.options.struct_data_const_name[1])) :
          \A s \in LitStructs(c.value) :
              Declared(result.out.structs, s.name, s.keys)

(* C2: the struct declarations emitted by one define_structs call have     *)
(* pairwise distinct names.                                                *)
C2_DistinctStructNames ==
    (op = "define_structs" /\ result.status = "Ok")
    => \A i, j \in 1..Len(result.out.structs) :
          i # j => result.out.structs[i].name # result.out.structs[j].name

\* The names C3 gives the records of a tree: the path from the root, a field
\* adding "__key" and a tuple slot "__index", Option(Some), Array and Vec
\* adding nothing.  Of an Array or Vec only the first element is declared.
RECURSIVE PathNames(_, _)
PathNames(v, path) ==
    CASE v.kind = "Struct" ->
            {path} \cup UNION {PathNames(v.items[i], path \o Sep \o v.keys[i])
                               : i \in 1..Len(v.items)}
      [] v.kind = "Tuple" ->
            UNION {PathNames(v.items[i], path \o Sep \o FormatUsize(i - 1))
                   : i \in 1..Len(v.items)}
      [] v.kind \in {"Option", "Array", "Vec"} /\ Len(v.items) > 0 ->
            PathNames(v.items[1], path)
      [] OTHER -> {}

(* C3: the struct generated for a record is named by the path that leads   *)
(* to it: S__k under field k, S__k__i under field k and tuple slot i,      *)
(* chained along the path; Option(Some), Array and Vec add nothing.        *)
C3_NamesFollowPath ==
    (op = "define_structs" /\ result.status = "Ok")
    => Range(DeclNames(result.out.structs)) = PathNames(value, args.name)

-----------------------------------------------------------------------------
\* no Array or Vec inside v mixes Option and non-Option elements
RECURSIVE Unmixed(_)
Unmixed(v) ==
    /\ v.kind \in {"Array", "Vec"} =>
          \/ \A i \in 1..Len(v.items) : v.items[i].kind = "Option"
          \/ \A i \in 1..Len(v.items) : v.items[i].kind # "Option"
    /\ \A i \in 1..Len(v.items) : Unmixed(v.items[i])

AnyOption(values) == \E i \in 1..Len(values) : values[i].kind = "Option"

(* C4 as stated: unify_values on a slice with an Option element turns      *)
(* every non-Option element v into Option(Some(v)) and leaves every Option *)
(* element as it was; on a slice without Option element it wraps nothing.  *)
C4_WrapsElementsUnchanged ==
    op = "unify_values"
    => /\ Len(result.out) = Len(args.values)
       /\ \A i \in 1..Len(args.values) :
             IF AnyOption(args.values)
             THEN result.out[i] =
                      (IF args.values[i].kind = "Option" THEN args.values[i]
                       ELSE OptionSome(args.values[i]))
             ELSE result.out[i].kind # "Option"

(* C4 as amended: on a slice with an Option element every element is an    *)
(* Option afterwards; a non-Option element v has become Option(Some(u)),   *)
(* an Option element is Some or None as before and is not wrapped again,   *)
(* where u is of the kind of v and is v itself when no Array or Vec inside *)
(* v mixes Option and non-Option elements.  On a slice without Option      *)
(* element nothing is wrapped.                                             *)
C4_WrapsUnifiedElements ==
    op = "unify_values"
    => /\ Len(result.out) = Len(args.values)
       /\ \A i \in 1..Len(args.values) :
             LET v == args.values[i]
                 w == result.out[i]
             IN  IF AnyOption(args.values)
                 THEN /\ w.kind = "Option"
                      /\ v.kind = "Option" =>
                            /\ Len(w.items) = Len(v.items)
                            /\ Len(v.items) = 1 =>
                                  w.items[1].kind = v.items[1].kind
                      /\ v.kind # "Option" =>
                            /\ Len(w.items) = 1
                            /\ w.items[1].kind = v.kind
                      /\ Unmixed(v) =>
                            w = (IF v.kind = "Option" THEN v ELSE OptionSome(v))
                 ELSE w.kind = v.kind

\* [v, None] has become [Some(v), None]
C4_Witness ==
    /\ op = "unify_values"
    /\ args.values = <<Scalar("I64", 1), OptionNone>>
    /\ result.out = <<OptionSome(Scalar("I64", 1)), OptionNone>>

-----------------------------------------------------------------------------
\* the literal lit is an expression of type ty, given the declarations
RECURSIVE TypeChecks(_, _, _)
TypeChecks(lit, ty, decls) ==
    CASE lit.l \in ScalarKinds -> ty = TPrim(PrimTypeName(lit.l))
      [] lit.l = "None" -> ty.t = "Option"
      [] lit.l = "Some" ->
            ty.t = "Option" /\ TypeChecks(lit.args[1], ty.args[1], decls)
      [] lit.l = "Array" ->
            /\ ty.t = "Array"
            /\ ty.n = Len(lit.args)
            /\ \A i \in 1..Len(lit.args) :
                  TypeChecks(lit.args[i], ty.args[1], decls)
      [] lit.l = "CowSlice" ->
            /\ ty.t = "CowSlice"
            /\ \A i \in 1..Len(lit.args) :
                  TypeChecks(lit.args[i], ty.args[1], decls)
      [] lit.l = "Tuple" ->
            /\ ty.t = "Tuple"
            /\ Len(ty.args) = Len(lit.args)
            /\ \A i \in 1..Len(lit.args) :
                  TypeChecks(lit.args[i], ty.args[i], decls)
      [] lit.l = "Struct" ->
            /\ ty.t = "Named"
            /\ ty.name = lit.name
            /\ \E d \in 1..Len(decls) :
                  /\ decls[d].name = lit.name
                  /\ FieldKeys(decls[d]) = lit.keys
                  /\ \A j \in 1..Len(lit.args) :
                        TypeChecks(lit.args[j], decls[d].fields[j].ty, decls)
      [] OTHER -> FALSE

\* no Tuple anywhere in the tree
RECURSIVE TupleFree(_)
TupleFree(v) ==
    v.kind # "Tuple" /\ \A i \in 1..Len(v.items) : TupleFree(v.items[i])

\* the values of the map are null or copies of one value
NullsOnlyDiffer(map) ==
    \E i \in 1..Len(map.items) :
        \A j \in 1..Len(map.items) : map.items[j] \in {OptionNone, map.items[i]}

(* C5: the element type and the struct declarations that                   *)
(* define_structs_from_values infers from the first unified value are      *)
(* valid for every value of the map: each value's literal type-checks      *)
(* against the element type.  Stated for the maps whose values are null or *)
(* copies of one value without Tuples and with homogeneous sequences, so   *)
(* that a violation is due to the position of the null value only.         *)
C5_EveryValueHasElementType ==
    (/\ op = "define_structs_from_values"
     /\ result.status = "Ok"
     /\ args.options.struct_data_const_name # None
     /\ NullsOnlyDiffer(value)
     /\ TupleFree(value)
     /\ Homogeneous(value))
    => \A c \in Range(ConstsNamed(result.out,
                                  args.options.struct_data_const_name[1])) :
          /\ c.ty.t = "RefSlice"
          /\ Len(c.value.args) = Len(value.items)
          /\ \A i \in 1..Len(c.value.args) :
                TypeChecks(c.value.args[i], c.ty.args[1], result.out.structs)

-----------------------------------------------------------------------------
(* C6: array_or_vec(seq, max) is Array(len(seq), seq) when max is Some(m)  *)
(* and len(seq) <= m, and Vec(seq) when len(seq) > m or max is None; the   *)
(* elements and their order are unchanged.                                 *)
C6_ArrayOrVec ==
    op = "array_or_vec"
    => LET seq == args.seq
           max == args.max_array_size
           out == result.out
       IN  /\ out.items = seq
           /\ (max # None /\ Len(seq) <= max[1])
                 => out.kind = "Array" /\ out.n = Len(seq)
           /\ (max # None /\ Len(seq) > max[1]) => out.kind = "Vec"
           /\ max = None => out.kind = "Vec"

\* a sequence of exactly max_array_size elements has become an Array
C6_Witness ==
    /\ op = "array_or_vec"
    /\ Len(args.seq) > 0
    /\ args.max_array_size = Some(Len(args.seq))
    /\ result.out.kind = "Array"

-----------------------------------------------------------------------------
(* C7: define_enum_from_keys emits one variant per key in insertion order; *)
(* the all-variants constant, when requested, lists the same variants in   *)
(* the same order; Default, when requested, returns the first key's        *)
(* variant.                                                                *)
C7_VariantsInInsertionOrder ==
    (op = "define_enum_from_keys" /\ result.status = "Ok")
    => /\ result.out.enum # None
       /\ result.out.enum[1].variants = value.keys
       /\ args.options.all_variants_const_name # None =>
             LET all == ConstsNamed(result.out,
                                    args.options.all_variants_const_name[1])
             IN  Len(all) = 1 /\ all[1].value.keys = value.keys
       /\ args.options.impl_default =>
             result.out.default = Some(value.keys[1])

\* keys inserted as b, a give the variants b, a and the default b
C7_Witness ==
    /\ op = "define_enum_from_keys"
    /\ result.status = "Ok"
    /\ value.keys = <<KeyB, KeyA>>
    /\ args.options.all_variants_const_name # None
    /\ args.options.impl_default
    /\ result.out.enum[1].variants = <<KeyB, KeyA>>

(* C8: define_enum_from_keys on a record with zero entries returns Err,    *)
(* whatever the options.                                                   *)
C8_EmptyRecordIsError ==
    (op = "define_enum_from_keys" /\ Len(value.keys) = 0)
    => result.status = "Err"

-----------------------------------------------------------------------------
(* C9: define_structs_from_values on a map with zero entries, and          *)
(* define_structs_from_file_contents on a directory without files, return  *)
(* Err(ExpectedValuesInMap) and no tokens, whatever the options.           *)
C9_EmptyMapIsError ==
    /\ (op = "define_structs_from_values" /\ Len(value.items) = 0)
          => result = Err("ExpectedValuesInMap", "")
    /\ (op = "define_structs_from_file_contents"
        /\ Len(SelectSeq(args.dir, LAMBDA e : e.is_file)) = 0)
          => result = Err("ExpectedValuesInMap", "")

\* the empty map with the data constant requested has given the error
C9_Witness ==
    /\ op = "define_structs_from_values"
    /\ Len(value.items) = 0
    /\ args.options.struct_data_const_name # None
    /\ result.status = "Err"

-----------------------------------------------------------------------------
\* the kind of Value each tag names
KindNamedBy(tag) ==
    CASE tag = "()" -> "Unit"
      [] tag = "bool" -> "Bool"
      [] tag = "char" -> "Char"
      [] tag = "i8" -> "I8"
      [] tag = "i16" -> "I16"
      [] tag = "i32" -> "I32"
      [] tag = "i64" -> "I64"
      [] tag = "i128" -> "I128"
      [] tag = "isize" -> "ISize"
      [] tag = "u8" -> "U8"
      [] tag = "u16" -> "U16"
      [] tag = "u32" -> "U32"
      [] tag = "u64" -> "U64"
      [] tag = "u128" -> "U128"
      [] tag = "usize" -> "USize"
      [] tag = "f32" -> "F32"
      [] tag = "f64" -> "F64"
      [] tag = "String" -> "String"
      [] tag = "Option" -> "Option"
      [] tag = "tuple" -> "Tuple"
      [] tag = "array" -> "Array"
      [] tag = "Vec" -> "Vec"
      [] OTHER -> "?"

(* C10: assume_struct returns Ok(s) exactly for Value::Struct(s) and       *)
(* otherwise Err(ExpectedStruct(tag)) with the tag naming the value's      *)
(* kind; generate_structs / generate_enum on a source whose root is not a  *)
(* mapping return that error and no code.                                  *)
C10_AssumeStruct ==
    /\ op = "assume_struct" =>
          IF value.kind = "Struct" THEN result = Ok(value)
          ELSE /\ result.status = "Err"
               /\ result.err[1] = "ExpectedStruct"
               /\ KindNamedBy(result.err[2]) = value.kind
    /\ (/\ op \in {"generate_structs_from_source", "generate_enum_from_source"}
        /\ args.source # None
        /\ value.kind # "Struct")
          => /\ result.status = "Err"
             /\ result.err[1] = "ExpectedStruct"
             /\ KindNamedBy(result.err[2]) = value.kind

\* generate_structs_from_source on a source whose root is a sequence
C10_Witness ==
    /\ op = "generate_structs_from_source"
    /\ args.source # None
    /\ value.kind = "Vec"
    /\ result = Err("ExpectedStruct", "Vec")

-----------------------------------------------------------------------------
\* the strings of a call that are no identifiers: the requested type name
\* and the keys of the record
Offending ==
    {n \in {args.name} \cup Range(value.keys) : ~is_ident(n)}

(* C11: when the requested root type name, or a key of the record that is  *)
(* used as a field name or as a variant, is not an identifier,             *)
(* define_structs and define_enum_from_keys return Err naming the          *)
(* offending string; they neither return Ok nor panic.                     *)
C11_NamingErrorsAreReturned ==
    (op \in {"define_structs", "define_enum_from_keys"} /\ Offending # {})
    => /\ result.status = "Err"
       /\ result.err[2] \in Offending

-----------------------------------------------------------------------------
-----------------------------------------------------------------------------
\* the derive list the options ask for: the user's traits in the given
\* order, then the serde traits
AskedDerives(options) ==
    options.derived_traits
    \o (IF \/ options.serde_support.kind = "Yes"
           \/ (options.serde_support.kind = "Mixed"
               /\ options.serde_support.serialize)
        THEN <<<<"serde", "Serialize">>>> ELSE <<>>)
    \o (IF \/ options.serde_support.kind = "Yes"
           \/ (options.serde_support.kind = "Mixed"
               /\ options.serde_support.deserialize)
        THEN <<<<"serde", "Deserialize">>>> ELSE <<>>)

(* C15: in one define_structs call the root declaration and every nested   *)
(* declaration carry the same derive attribute: the user's derived_traits  *)
(* in the given order, followed by serde::Serialize and/or                 *)
(* serde::Deserialize when serde support asks for them; there is no derive *)
(* attribute when that list is empty.                                      *)
C15_UniformDerives ==
    (op = "define_structs" /\ result.status = "Ok")
    => \A i \in 1..Len(result.out.structs) :
          result.out.structs[i].derives =
              (IF AskedDerives(args.options) = <<>> THEN None
               ELSE Some(AskedDerives(args.options)))

\* nested declarations with two user traits and both serde traits
C15_Witness ==
    /\ op = "define_structs"
    /\ result.status = "Ok"
    /\ Len(result.out.structs) > 2
    /\ args.options.serde_support = SerdeYes
    /\ result.out.structs[Len(result.out.structs)].derives =
           Some(<<<<"Debug">>, <<"Clone">>, <<"serde", "Serialize">>,
                  <<"serde", "Deserialize">>>>)

-----------------------------------------------------------------------------
(* C17: define_structs emits the data constant iff struct_data_const_name  *)
(* is set, the source-path constant iff a source path is supplied and      *)
(* source_path_const_name is set, and the inherent impl block iff at least *)
(* one of the two is emitted; with the minimal options the output is       *)
(* struct declarations only.                                               *)
C17_AuxiliaryItemsOnRequest ==
    (op = "define_structs" /\ result.status = "Ok")
    => LET out == result.out
           items == ImplItems(out)
           data_consts == SelectSeq(items,
               LAMBDA it : it.item = "const" /\ it.ty.t = "Named")
           path_consts == SelectSeq(items,
               LAMBDA it : it.item = "const" /\ it.ty = TStr)
           data_asked == args.options.struct_data_const_name # None
           path_asked == /\ args.path # None
                         /\ args.options.source_path_const_name # None
       IN  /\ Len(data_consts) = (IF data_asked THEN 1 ELSE 0)
           /\ data_asked =>
                 data_consts[1].name = args.options.struct_data_const_name[1]
           /\ Len(path_consts) = (IF path_asked THEN 1 ELSE 0)
           /\ path_asked =>
                 /\ path_consts[1].name = args.options.source_path_const_name[1]
                 /\ path_consts[1].value.name = args.path[1]
           /\ Len(items) = Len(data_consts) + Len(path_consts)
           /\ Len(out.impls) = (IF data_asked \/ path_asked THEN 1 ELSE 0)
           /\ out.consts = <<>>
           /\ out.enum = None
           /\ args.options = MinimalOptions =>
                 out = [NoTokens EXCEPT !.structs = out.structs]

\* the source-path constant is named but no path is supplied: no impl block
C17_Witness ==
    /\ op = "define_structs"
    /\ result.status = "Ok"
    /\ args.options.source_path_const_name # None
    /\ args.options.struct_data_const_name = None
    /\ args.path = None
    /\ result.out.impls = <<>>

-----------------------------------------------------------------------------
\* the literal lit writes out the value v
RECURSIVE Denotes(_, _)
Denotes(lit, v) ==
    CASE v.kind \in ScalarKinds -> lit.l = v.kind /\ lit.n = v.n
      [] v.kind = "Option" ->
            IF Len(v.items) = 0 THEN lit.l = "None"
            ELSE lit.l = "Some" /\ Denotes(lit.args[1], v.items[1])
      [] v.kind \in {"Array", "Vec", "Tuple"} ->
            /\ lit.l = (CASE v.kind = "Array" -> "Array"
                          [] v.kind = "Vec" -> "CowSlice"
                          [] v.kind = "Tuple" -> "Tuple")
            /\ Len(lit.args) = Len(v.items)
            /\ \A i \in 1..Len(v.items) : Denotes(lit.args[i], v.items[i])
      [] v.kind = "Struct" ->
            /\ lit.l = "Struct"
            /\ lit.keys = v.keys
            /\ Len(lit.args) = Len(v.items)
            /\ \A i \in 1..Len(v.items) : Denotes(lit.args[i], v.items[i])

\* the accessor fn_name, when named, indexes the constant const_name by the
\* discriminant of the variant
IndexedBy(out, fn_name, const_name) ==
    fn_name # None =>
        \E i \in 1..Len(ImplItems(out)) :
            /\ ImplItems(out)[i].item = "fn"
            /\ ImplItems(out)[i].name = fn_name[1]
            /\ ImplItems(out)[i].value.l = "IndexBySelf"
            /\ ImplItems(out)[i].value.name = const_name

(* C16: the values constant of define_enum_from_keys has as many entries   *)
(* as the enum has variants, and its i-th entry is the literal of the      *)
(* unified value stored under the key of the i-th variant; the accessor    *)
(* indexes this constant by the discriminant.  For                         *)
(* define_enum_from_filenames the i-th entry is the parsed content of the  *)
(* file that gave the i-th variant.                                        *)
C16_ValuesFollowVariants ==
    /\ (/\ op = "define_enum_from_keys"
        /\ result.status = "Ok"
        /\ args.options.all_values_const_name # None)
       => LET consts == ConstsNamed(result.out,
                                    args.options.all_values_const_name[1])
              variants == result.out.enum[1].variants
              unified == unify_values(value.items)
          IN  /\ Len(consts) = 1
              /\ Len(consts[1].value.args) = Len(variants)
              /\ \A i \in 1..Len(variants) :
                    \E j \in 1..Len(value.keys) :
                        /\ value.keys[j] = variants[i]
                        /\ Denotes(consts[1].value.args[i], unified[j])
              /\ IndexedBy(result.out, args.options.get_value_fn_name,
                           args.options.all_values_const_name[1])
    /\ (/\ op = "define_enum_from_filenames"
        /\ result.status = "Ok"
        /\ args.options.all_values_const_name # None)
       => LET consts == ConstsNamed(result.out,
                                    args.options.all_values_const_name[1])
              variants == result.out.enum[1].variants
              files == SelectSeq(args.dir,
                  LAMBDA e : e.is_file /\ e.depth = 1 /\ ~is_hidden(e))
              unified == unify_values([j \in 1..Len(files) |->
                                          parse_value(files[j].raw)])
          IN  Len(consts) > 0 =>
                /\ Len(consts) = 1
                /\ Len(consts[1].value.args) = Len(variants)
                /\ \A i \in 1..Len(variants) :
                      \E j \in 1..Len(files) :
                          /\ to_camel(file_stem(files[j].file_name)[1])
                                = variants[i]
                          /\ Denotes(consts[1].value.args[i], unified[j])

\* keys b, a with different values: the entries are those of b, then of a
C16_Witness ==
    /\ op = "define_enum_from_keys"
    /\ result.status = "Ok"
    /\ args.options.all_values_const_name # None
    /\ args.options.get_value_fn_name # None
    /\ value.keys = <<KeyB, KeyA>>
    /\ value.items[1] # value.items[2]
    /\ Len(ConstsNamed(result.out,
                       args.options.all_values_const_name[1])[1].value.args) = 2

-----------------------------------------------------------------------------
\* the variants and paths of the sequence of files, in its order
VariantsOf(files) ==
    [i \in 1..Len(files) |-> to_camel(file_stem(files[i].file_name)[1])]
PathsOf(files) == [i \in 1..Len(files) |-> path_of(files[i])]

\* the sequence is in ascending order of file name
Ascending(files) ==
    \A i \in 1..Len(files) : \A j \in 1..Len(files) :
        i < j => OsStrLess(files[i].file_name, files[j].file_name)

\* variants and file-paths constant are those of the files wanted, taken
\* in ascending order of file name
FilenamesEnumOf(wanted) ==
    LET files == sort_by_file_name(wanted)
    IN  /\ Ascending(files)
        /\ result.out.enum[1].variants = VariantsOf(files)
        /\ \A i \in 1..Len(files) :
              files[i].file_name = KeyAB \o YamlExt
                  => result.out.enum[1].variants[i] = <<"A", "B">>
        /\ args.options.file_paths_const_name # None =>
              LET paths == ConstsNamed(result.out,
                                       args.options.file_paths_const_name[1])
              IN  Len(paths) = 1 /\ paths[1].value.keys = PathsOf(files)

(* C18 as stated: define_enum_from_filenames emits one variant per regular *)
(* file directly in the directory, in ascending order of file name, the    *)
(* variant being the camel-case form of the file stem; the file-paths      *)
(* constant, when requested, lists the paths in the same order.            *)
C18_VariantPerRegularFile ==
    (op = "define_enum_from_filenames" /\ result.status = "Ok")
    => FilenamesEnumOf(SelectSeq(args.dir,
           LAMBDA e : e.is_file /\ e.depth = 1))

(* C18 as amended: one variant per regular file directly in the directory  *)
(* that is neither hidden nor matched by an ignore rule, in ascending      *)
(* order of file name, the variant being the camel-case form of the file   *)
(* stem; the file-paths constant, when requested, lists the paths of these *)
(* files in the same order.                                                *)
C18_VariantPerVisibleFile ==
    (op = "define_enum_from_filenames" /\ result.status = "Ok")
    => FilenamesEnumOf(SelectSeq(args.dir,
           LAMBDA e : e.is_file /\ e.depth = 1 /\ ~is_hidden(e)))

\* files b.yaml, a.yaml and a hidden file: the variants are A, B
C18_Witness ==
    /\ op = "define_enum_from_filenames"
    /\ result.status = "Ok"
    /\ value.keys = <<KeyB, KeyA>>
    /\ \E i \in 1..Len(args.dir) : is_hidden(args.dir[i])
    /\ args.options.file_paths_const_name # None
    /\ result.out.enum[1].variants = <<<<"A">>, <<"B">>>>

-----------------------------------------------------------------------------
\* a create_* call was made last
IsCreate == op \in {"create_structs", "create_enum"}

\* what the generation of the last create_* call returned
Generated ==
    IF op = "create_structs"
    THEN generate_structs(args.source, args.name, MinimalOptions)
    ELSE generate_enum(args.source, args.name, MinimalOptions)

\* the destination exists and read_to_string succeeds on it
Readable(f) == f.dest # None /\ f.dest[1] # Garbage

\* write_destination as the create_* calls show it: no write when
\* write_only_if_changed is set and the destination is readable and equal to
\* the output, a write otherwise; and the destination holds the output after
\* a successful call
WritesWhenChanged ==
    (IsCreate /\ Generated.status = "Ok")
    => LET same == /\ args.write_only_if_changed
                   /\ Readable(args.before)
                   /\ args.before.dest[1] = Generated.out
       IN  /\ same => /\ result = Ok(<<>>)
                      /\ fs.writes = args.before.writes
                      /\ fs.dest = args.before.dest
           /\ (~same /\ result.status = "Ok")
                  => fs.writes = args.before.writes + 1
           /\ (~same /\ result.status # "Ok")
                  => /\ ~args.before.parent /\ ~args.create_dirs
                     /\ fs = args.before
           /\ result.status = "Ok" => fs.dest = Some(Generated.out)

\* the last call repeats the successful call before it on the same input
Repeated ==
    /\ IsCreate
    /\ args.last.op = op
    /\ args.last.source = args.source
    /\ args.last.status = "Ok"

(* C13 as stated: write_destination with write_only_if_changed = true      *)
(* performs no write when the destination is readable and equal to the new *)
(* output and writes otherwise, and with write_only_if_changed = false it  *)
(* always writes; after a successful create_* call the destination holds   *)
(* the output of that call; and a create_* call repeated with unchanged    *)
(* input after a successful one does not write the destination again.      *)
C13_RepeatedCallNeverWrites ==
    /\ WritesWhenChanged
    /\ Repeated => fs.writes = args.before.writes

(* C13 as amended: write_destination with write_only_if_changed = true     *)
(* performs no write when the destination is readable and equal to the new *)
(* output and writes otherwise, and with write_only_if_changed = false it  *)
(* always writes; after a successful create_* call the destination holds   *)
(* the output of that call; and a create_* call repeated with unchanged    *)
(* input and write_only_if_changed = true after a successful one does not  *)
(* write the destination again.                                            *)
C13_RepeatedCallWritesOnlyIfAsked ==
    /\ WritesWhenChanged
    /\ (Repeated /\ args.write_only_if_changed)
           => fs.writes = args.before.writes

\* a successful call was repeated with write_only_if_changed and wrote
\* nothing
C13_Witness ==
    /\ Repeated
    /\ args.write_only_if_changed
    /\ result.status = "Ok"
    /\ fs.writes = 1
    /\ fs.writes = args.before.writes
    /\ fs.dest = Some(Generated.out)

-----------------------------------------------------------------------------
(* C14: when reading, parsing, the shape check or the code generation of a *)
(* create_* call returns an error, the call returns that error and the     *)
(* file system is as it was: no parent directory was created and the       *)
(* destination was neither created nor modified.                           *)
C14_GenerationBeforeOutput ==
    (IsCreate /\ Generated.status = "Err")
    => /\ result = Generated
       /\ fs = args.before

\* the source does not parse, create_dirs is set and the directory is
\* missing: it is still missing
C14_Witness ==
    /\ IsCreate
    /\ Generated = Err("Parse", "")
    /\ args.create_dirs
    /\ ~args.before.parent
    /\ ~fs.parent
    /\ result = Err("Parse", "")

-----------------------------------------------------------------------------
(* C19: type_of_value maps Option(Some v) to Option of the type of v,      *)
(* Option(None) to Option<()>, an empty Array of length N to [(); N], an   *)
(* empty Vec to a slice of (), and a non-empty Array or Vec to the array   *)
(* or slice of the type of its first element: the type and the structs     *)
(* that are registered are those of the first element alone.               *)
C19_SequencesTypedByFirstElement ==
    (op = "type_of_value" /\ value.kind \in {"Option", "Array", "Vec"})
    => LET unit == TPrim("()")
           empty == Len(value.items) = 0
           first == type_of_value(value.items[1], args.name, None, None, <<>>)
           inner == IF empty THEN unit ELSE first.ty
       IN  /\ result.out.ty =
                 (CASE value.kind = "Option" -> TOption(inner)
                    [] value.kind = "Array" -> TArray(inner, value.n)
                    [] value.kind = "Vec" -> TCowSlice(inner))
           /\ result.out.ns = (IF empty THEN <<>> ELSE first.ns)

\* a Vec whose second element is a record and whose first is none: no struct
\* is registered
C19_Witness ==
    /\ op = "type_of_value"
    /\ value.kind = "Vec"
    /\ Len(value.items) = 2
    /\ value.items[1].kind # "Struct"
    /\ value.items[2].kind = "Struct"
    /\ result.out.ns = <<>>
    /\ result.out.ty = TCowSlice(TPrim("()"))

-----------------------------------------------------------------------------
\* the field names of the records of a value in pre-order: a record, then
\* for each of its fields in order the records found in it, where a tuple
\* is searched slot by slot and an Option, Array or Vec in its first element
RECURSIVE PreOrderKeys(_)
PreOrderKeys(v) ==
    CASE v.kind = "Struct" ->
            <<v.keys>>
            \o FlattenSeq([i \in 1..Len(v.items) |-> PreOrderKeys(v.items[i])])
      [] v.kind = "Tuple" ->
            FlattenSeq([i \in 1..Len(v.items) |-> PreOrderKeys(v.items[i])])
      [] v.kind \in {"Option", "Array", "Vec"} ->
            IF Len(v.items) = 0 THEN <<>> ELSE PreOrderKeys(v.items[1])
      [] OTHER -> <<>>

\* the names of the records under the record data named struct_name, as
\* inference registers them, in pre-order
RECURSIVE PreOrderNames(_, _)
PreOrderNames(data, struct_name) ==
    LET registered ==
            FlattenSeq([i \in 1..Len(data.items) |->
                type_of_value(data.items[i], struct_name, Some(data.keys[i]),
                              None, <<>>).ns])
    IN  <<struct_name>>
        \o FlattenSeq([i \in 1..Len(registered) |->
               PreOrderNames(registered[i].data, registered[i].name)])

(* C20: define_structs emits the root declaration first and then, for each *)
(* nested record in the order of its field or tuple slot, the declaration  *)
(* of that record followed at once by the declarations nested in it; every *)
(* record that inference registers has exactly one declaration, and the    *)
(* fields of a declaration are in key insertion order.                     *)
C20_PreOrderDeclarations ==
    (op = "define_structs" /\ result.status = "Ok")
    => LET structs == result.out.structs
       IN  /\ structs[1].name = args.name
           /\ FieldKeys(structs[1]) = value.keys
           /\ [i \in 1..Len(structs) |-> FieldKeys(structs[i])]
                 = PreOrderKeys(value)
           /\ DeclNames(structs) = PreOrderNames(value, args.name)

\* b holds a record that holds a record, a holds a record: the declaration
\* nested in b comes before that of a
C20_Witness ==
    /\ op = "define_structs"
    /\ result.status = "Ok"
    /\ value.keys = <<KeyB, KeyA>>
    /\ Len(value.items[1].keys) = 1
    /\ Len(result.out.structs) = 4
    /\ DeclNames(result.out.structs) =
           <<RootName,
             struct_name_at(RootName, Some(KeyB), None),
             struct_name_at(struct_name_at(RootName, Some(KeyB), None),
                            Some(value.items[1].keys[1]), None),
             struct_name_at(RootName, Some(KeyA), None)>>

-----------------------------------------------------------------------------
(* C21: after unify_value every Array and every Vec anywhere inside the    *)
(* value, under Option(Some), tuple slots, struct fields or other          *)
(* sequences, holds no Option element or only Option elements; the same    *)
(* holds inside every element of the slice after unify_values and for      *)
(* every value parse_value returns.                                        *)
C21_SequencesUnmixed ==
    /\ op \in {"unify_value", "parse_value"} => Unmixed(result.out)
    /\ op = "unify_values" =>
          \A i \in 1..Len(result.out) : Unmixed(result.out[i])

\* a record whose field is a sequence that mixed Option and other elements
C21_Witness ==
    /\ op = "unify_value"
    /\ value.kind = "Struct"
    /\ Len(value.items) > 0
    /\ value.items[1].kind \in {"Array", "Vec"}
    /\ ~Unmixed(value)
    /\ Unmixed(result.out)

-----------------------------------------------------------------------------
\* u is v but for elements of Arrays and Vecs that are wrapped in
\* Option(Some(..)): kinds, scalars, keys, lengths and orders are those of v
RECURSIVE Framed(_, _)
RECURSIVE FramedElement(_, _)
Framed(v, u) ==
    /\ u.kind = v.kind
    /\ u.n = v.n
    /\ u.keys = v.keys
    /\ Len(u.items) = Len(v.items)
    /\ \A i \in 1..Len(v.items) :
          IF v.kind \in {"Array", "Vec"}
          THEN FramedElement(v.items[i], u.items[i])
          ELSE Framed(v.items[i], u.items[i])

\* the element u of a sequence or slice is v, wrapped or not
FramedElement(v, u) ==
    IF u.kind = "Option" /\ v.kind # "Option"
    THEN Len(u.items) = 1 /\ Framed(v, u.items[1])
    ELSE Framed(v, u)

(* C22: unify_value and unify_values return Ok for every input and change  *)
(* nothing but wrap elements of an Array, of a Vec or of the slice in      *)
(* Option(Some(..)): scalars, strings and Option(None) stay as they are,   *)
(* tuple arity and slot order, struct keys and key order, sequence         *)
(* lengths, element order and the declared length of every Array are       *)
(* kept, and values in different tuple slots or under different struct     *)
(* keys are not unified with each other.                                   *)
C22_OnlyWrapsElements ==
    /\ op = "unify_value" =>
          /\ result.status = "Ok"
          /\ Framed(value, result.out)
    /\ op = "unify_values" =>
          /\ result.status = "Ok"
          /\ Len(result.out) = Len(args.values)
          /\ \A i \in 1..Len(args.values) :
                FramedElement(args.values[i], result.out[i])

\* a tuple with a null slot next to a slot that is none: nothing changes
C22_Witness ==
    /\ op = "unify_value"
    /\ value.kind = "Tuple"
    /\ Len(value.items) = 2
    /\ value.items[1].kind # "Option"
    /\ value.items[2] = OptionNone
    /\ result.out = value

-----------------------------------------------------------------------------
(* C27: unify_values is idempotent: applied to its own result it returns   *)
(* that result, no element that is an Option being wrapped again at the    *)
(* top level or in a nested sequence; likewise unify_value.                *)
C27_UnifyIdempotent ==
    /\ op = "unify_values" => unify_values(result.out) = result.out
    /\ op = "unify_value" => unify_value(result.out) = result.out

\* a slice that was changed by the first application
C27_Witness ==
    /\ op = "unify_values"
    /\ Len(args.values) = 2
    /\ args.values[2] = OptionNone
    /\ args.values[1].kind \in {"Array", "Vec"}
    /\ result.out # args.values
    /\ result.out[1].kind = "Option"
    /\ unify_values(result.out) = result.out

-----------------------------------------------------------------------------
\* the serde traits the options ask for
SerdeTraits(options) ==
    SubSeq(AskedDerives(options), Len(options.derived_traits) + 1,
           Len(AskedDerives(options)))

\* the number of times Debug is in a derive list
DebugCount(traits) == Cardinality({i \in 1..Len(traits) : traits[i] = <<"Debug">>})

\* the derive list of an attribute, empty when there is no attribute
DeriveList(derives) == IF derives = None THEN <<>> ELSE derives[1]

(* C25: an enum generated with impl_display = true derives Debug: Debug is *)
(* appended, after the user's traits and the serde traits, exactly when    *)
(* the user's derived_traits do not contain "Debug", and nothing is added  *)
(* when they do, so the generator never adds Debug a second time; struct   *)
(* declarations never get Debug added.                                     *)
C25_DebugForDisplay ==
    /\ (/\ op \in {"define_enum_from_keys", "define_enum_from_filenames"}
        /\ result.status = "Ok")
       => LET options == args.options
              user == options.enum_derived_traits
              derives == DeriveList(result.out.enum[1].derives)
              append == options.impl_display /\ DebugCount(user) = 0
              structs == result.out.structs
          IN  /\ derives = user \o SerdeTraits(options)
                           \o (IF append THEN <<<<"Debug">>>> ELSE <<>>)
              /\ options.impl_display => DebugCount(derives) > 0
              /\ DebugCount(derives) =
                    DebugCount(user) + (IF append THEN 1 ELSE 0)
              /\ (derives = <<>>) = (result.out.enum[1].derives = None)
              /\ \A i \in 1..Len(structs) :
                    DeriveList(structs[i].derives) =
                        options.values_derived_traits \o SerdeTraits(options)
    /\ (op = "define_structs" /\ result.status = "Ok")
       => \A i \in 1..Len(result.out.structs) :
             DebugCount(DeriveList(result.out.structs[i].derives))
                 = DebugCount(args.options.derived_traits)

\* Debug comes after Clone and the serde traits, and the struct of the
\* values has the serde traits alone
C25_Witness ==
    /\ op = "define_enum_from_keys"
    /\ result.status = "Ok"
    /\ args.options.impl_display
    /\ result.out.enum[1].derives =
           Some(<<<<"Clone">>, <<"serde", "Serialize">>,
                  <<"serde", "Deserialize">>, <<"Debug">>>>)
    /\ Len(result.out.structs) > 0
    /\ result.out.structs[1].derives =
           Some(<<<<"serde", "Serialize">>, <<"serde", "Deserialize">>>>)

-----------------------------------------------------------------------------
\* the struct names reached from names through at most n levels of fields
RECURSIVE ReachedNames(_, _, _)
ReachedNames(names, decls, n) ==
    IF n = 0 THEN names
    ELSE ReachedNames(
             names \cup UNION {UNION {type_idents(decls[i].fields[j].ty)
                                      : j \in 1..Len(decls[i].fields)}
                               : i \in {k \in 1..Len(decls)
                                        : decls[k].name \in names}},
             decls, n - 1)

\* the number of declarations of a name
DeclCount(decls, name) ==
    Cardinality({i \in 1..Len(decls) : decls[i].name = name})

(* C28: the element type that establish_types_for_values takes from        *)
(* type_of_value(v, n, None, None) and the declarations it takes from      *)
(* define_structs_for_value(v, n) agree: every struct name in the type is  *)
(* the name of exactly one declaration, and every declaration is reached   *)
(* from the type, for Records, Records under Option, Array or Vec, Tuples  *)
(* of Records and Tuples in Tuples.                                        *)
C28_TypeNamesAreDeclared ==
    (/\ op = "define_structs_from_values"
     /\ result.status = "Ok"
     /\ args.options.struct_data_const_name # None)
    => \A c \in Range(ConstsNamed(result.out,
                                  args.options.struct_data_const_name[1])) :
          LET decls == result.out.structs
              named == type_idents(c.ty.args[1])
          IN  /\ \A name \in named : DeclCount(decls, name) = 1
              /\ \A i \in 1..Len(decls) :
                    decls[i].name \in ReachedNames(named, decls, MaxNodes)

-----------------------------------------------------------------------------
(* C29: the variant identifiers that define_enum_from_filenames emits are  *)
(* pairwise distinct whatever the directory holds, files of one stem with  *)
(* different extensions and stems that camel-casing makes equal included.  *)
C29_VariantsDistinct ==
    (op = "define_enum_from_filenames" /\ result.status = "Ok")
    => LET variants == result.out.enum[1].variants
       IN  \A i \in 1..Len(variants) : \A j \in 1..Len(variants) :
              i # j => variants[i] # variants[j]

-----------------------------------------------------------------------------
\* the accessor functions named fn_name
FnsNamed(out, fn_name) ==
    SelectSeq(ImplItems(out),
              LAMBDA it : it.item = "fn" /\ it.name = fn_name)

\* the accessor fn_name is emitted only together with the constant
\* const_name, which it indexes
OnlyWithConstant(out, fn_name, const_name) ==
    (fn_name # None /\ Len(FnsNamed(out, fn_name[1])) > 0)
    => /\ const_name # None
       /\ Len(ConstsNamed(out, const_name[1])) = 1
       /\ \A i \in 1..Len(FnsNamed(out, fn_name[1])) :
             /\ FnsNamed(out, fn_name[1])[i].value.l = "IndexBySelf"
             /\ FnsNamed(out, fn_name[1])[i].value.name = const_name[1]

\* the accessor pairs of the options
AccessorsOnlyWithConstants(out, options) ==
    /\ OnlyWithConstant(out, options.get_value_fn_name,
                        options.all_values_const_name)
    /\ OnlyWithConstant(out, options.get_path_fn_name,
                        options.file_paths_const_name)
    /\ OnlyWithConstant(out, options.get_bytes_fn_name,
                        options.file_bytes_const_name)
    /\ OnlyWithConstant(out, options.get_string_fn_name,
                        options.file_strings_const_name)
    /\ \A i \in 1..Len(ImplItems(out)) :
          ImplItems(out)[i].item = "fn"
              => Len(ConstsNamed(out, ImplItems(out)[i].value.name)) = 1

\* every struct type the values constant names is declared in the output
ValuesTypesDeclared(out, options) ==
    options.all_values_const_name # None
    => \A c \in Range(ConstsNamed(out, options.all_values_const_name[1])) :
          \A name \in type_idents(c.ty) :
             DeclCount(out.structs, name) > 0

(* C30: in the code of an enum every accessor function is emitted only     *)
(* together with the constant it indexes (the value accessor with the      *)
(* values constant; the path, bytes and string accessors with their        *)
(* constants), and every struct type that the values constant names is     *)
(* declared in the same output.                                            *)
C30_AccessorsAndTypesResolve ==
    (/\ op \in {"define_enum_from_keys", "define_enum_from_filenames"}
     /\ result.status = "Ok")
    => /\ AccessorsOnlyWithConstants(result.out, args.options)
       /\ ValuesTypesDeclared(result.out, args.options)

\* the part of C30 about the accessors alone
C30_AccessorsOnly ==
    (/\ op \in {"define_enum_from_keys", "define_enum_from_filenames"}
     /\ result.status = "Ok")
    => AccessorsOnlyWithConstants(result.out, args.options)

-----------------------------------------------------------------------------
\* the bytes of the signed integer type a Value kind stands for
WidthOf(kind) ==
    CASE kind = "I8" -> 1
      [] kind = "I16" -> 2
      [] kind = "I32" -> 4
      [] kind = "I64" -> 8
      [] kind = "ISize" -> 8
      [] kind = "I128" -> 16

\* the i128 v is in the range of the signed integers of w bytes: the cast
\* to w bytes and back gives v
InRange(v, w) == SignExtend(CastTo(v, w), 16) = v

(* C23: for preferred in I8, I16, I32, I64, I128 and every i128 v,         *)
(* preferred_int returns the narrowest signed width that is not narrower   *)
(* than preferred and whose range contains v, and I128 when there is none; *)
(* 129 with I8 gives I16 and 65537 with I16 gives I32.                     *)
C23_NarrowestWidth ==
    (op = "preferred_int" /\ args.preferred # "ISize")
    => LET v == args.value
           w == WidthOf(result.out.kind)
           p == WidthOf(args.preferred)
       IN  /\ result.out.kind \in {"I8", "I16", "I32", "I64", "I128"}
           /\ Len(result.out.n) = w
           /\ w >= p
           /\ InRange(v, w)
           /\ \A u \in {1, 2, 4, 8} : (u >= p /\ u < w) => ~InRange(v, u)
           /\ (v = Fill(0, 15) \o <<129>> /\ args.preferred = "I8")
                 => result.out.kind = "I16"
           /\ (v = Fill(0, 13) \o <<1, 0, 1>> /\ args.preferred = "I16")
                 => result.out.kind = "I32"

\* i8::MAX is an I8, and 129 with I8 is an I16
C23_Witness ==
    /\ op = "preferred_int"
    /\ args.preferred = "I8"
    /\ \/ args.value = Fill(0, 15) \o <<127>> /\ result.out.kind = "I8"
       \/ args.value = Fill(0, 15) \o <<129>> /\ result.out.kind = "I16"

-----------------------------------------------------------------------------
(* C26: for every i128 v and every preferred size, ISize included, the     *)
(* Value that preferred_int returns denotes exactly v: its payload,        *)
(* extended to an i128, is v (an isize has 64 bits).                       *)
C26_DenotesValue ==
    op = "preferred_int" => SignExtend(result.out.n, 16) = args.value

-----------------------------------------------------------------------------
\* every Array of the tree is declared with the number of its elements
RECURSIVE LengthsAgree(_)
LengthsAgree(v) ==
    /\ v.kind = "Array" => v.n = Len(v.items)
    /\ \A i \in 1..Len(v.items) : LengthsAgree(v.items[i])

\* the type emitted for every Array of the tree is an array type of as
\* many elements as the literal emitted for it
RECURSIVE ArraysTyped(_)
ArraysTyped(v) ==
    /\ v.kind = "Array" =>
          LET ty == type_of_value(v, RootName, None, None, <<>>).ty
              lit == define_value(v, RootName, None, None)
          IN  ty.t = "Array" /\ lit.l = "Array" /\ ty.n = Len(lit.args)
    /\ \A i \in 1..Len(v.items) : ArraysTyped(v.items[i])

\* along the first elements, an array type has the length of its literal
RECURSIVE LengthsMatch(_, _)
LengthsMatch(lit, ty) ==
    CASE lit.l = "Array" ->
            /\ ty.t = "Array"
            /\ ty.n = Len(lit.args)
            /\ Len(lit.args) > 0 => LengthsMatch(lit.args[1], ty.args[1])
      [] lit.l = "CowSlice" ->
            /\ ty.t = "CowSlice"
            /\ Len(lit.args) > 0 => LengthsMatch(lit.args[1], ty.args[1])
      [] lit.l = "Some" ->
            ty.t = "Option" /\ LengthsMatch(lit.args[1], ty.args[1])
      [] OTHER -> TRUE

(* C24: every Array(n, items) that parse_source builds through             *)
(* array_or_vec has n = len(items), before and after unify_value, so the   *)
(* assert_eq!(values.len(), *len) of type_of_value never fails on a parsed *)
(* value, and the array type [T; n] emitted for it has as many elements as *)
(* the literal emitted for it.                                             *)
C24_ArrayLengthsAgree ==
    /\ (op = "parse_source" /\ result.status = "Ok")
       => /\ LengthsAgree(
                 parse_value_non_unified(args.source[1], args.options).out)
          /\ LengthsAgree(result.out)
    /\ op = "type_and_literal"
       => /\ result.status = "Ok"
          /\ LengthsMatch(result.out.lit, result.out.ty)
          /\ ArraysTyped(value)

\* the sequence [null, 1] became an Array of two Options, typed [_; 2]
C24_Witness ==
    /\ op = "type_and_literal"
    /\ result.status = "Ok"
    /\ args.source[1].y = "Sequence"
    /\ Len(args.source[1].items) = 2
    /\ args.source[1].items[1].y = "Null"
    /\ args.source[1].items[2].y = "Number"
    /\ value.kind = "Array"
    /\ value.n = 2
    /\ value.items[2].kind = "Option"
    /\ result.out.ty.t = "Array"
    /\ result.out.ty.n = 2
    /\ Len(result.out.lit.args) = 2

====
